---- MODULE Spec2Model ----
(***************************************************************************)
(* Model of the damage pricing backend of BigBeautifulChecker:             *)
(*   backend/src/price_calculator.py  (analyze_damage, the 10-year         *)
(*       projection, the bounded concurrent fan-out)                       *)
(*   backend/app.py                   (the HTTP layer that feeds it)       *)
(*                                                                         *)
(* Conventions                                                             *)
(*   - A text is a sequence of tokens.  Item names and prompts are         *)
(*     sequences of words, CSV cells are sequences of characters.          *)
(*     `a in b` of Python is containment of a contiguous subsequence.      *)
(*   - Python floats are modelled by exact decimal fixed point numbers     *)
(*     (type Num below); round(x, 2) yields an integer number of cents.    *)
(*     The inputs are restricted to those where no rounded amount lies     *)
(*     exactly on a half cent (there the binary representation decides).   *)
(***************************************************************************)
EXTENDS Integers, Sequences, FiniteSets, TLC

VARIABLES
    \* ---- one call of analyze_damages_for_endpoint / run_analyses_async ----
    entry,            \* which of the two functions was called
    use_mock,         \* argument use_mock
    max_concurrent,   \* argument max_concurrent
    damage_items,     \* argument damage_items / test_cases
    main_pc,          \* position of the caller: "call", "gather", "returned", "raised"
    semaphore,        \* value of the asyncio.Semaphore (0 until it is constructed)
    task,             \* per item: the coroutine analyze_with_semaphore(item)
    results,          \* per item: outcome of the task as gather sees it
    finished,         \* indexes of the tasks in the order they finished
    response,         \* return value of the call, or NoValue
    \* ---- projection of one schedule (calculate_10year_projection) ----
    cost_data,        \* the schedule handed to calculate_10year_projection
    projection,       \* its return value, or NoValue before the call
    \* ---- one request to the HTTP layer (app.py) ----
    http_endpoint,    \* the route of the request
    http_body,        \* its damage items (or the annotations of the detection)
    http_pc,          \* "request", "pricing", "responded" ("none": no request)
    passed,           \* damage_items handed to analyze_damages_for_endpoint
    reached,          \* the severities handed to analyze_damage so far
    http_status,      \* status code of the answer, 0 before it
    \* ---- one call of fetch_market_appreciation_rate (property_valuation.py) ----
    market_price,     \* argument current_price
    market_reply,     \* what the market API call does
    market_pc,        \* "call", "returned" ("none": no call)
    market_rate,      \* the returned rate in basis points (0 before the return)
    \* ---- one request to /immo24/scrape (app.py, immo24_scraper.py) ----
    scrape_url,         \* request.url
    scrape_max_images,  \* request.max_images
    scrape_pc,          \* "request", "immowelt", "single", "search", "fetched",
                        \* "returned", "raised", "responded" ("none": no request)
    scrape_seen,        \* what the site served: pages, search data, broken images
    scrape_result,      \* the dictionary built by the scraper, or NoValue
    scrape_raised,      \* class of the exception leaving the scraper, "" if none
    scrape_status,      \* status code of the answer, 0 before it
    page_fetches,       \* page fetches attempted so far (browser or HTTP)
    \* ---- one run of CSVProcessor.fill_missing_data (generate_csv_data.py) ----
    fill_use_llm,       \* argument use_llm
    fill_api_key,       \* whether GEMINI_API_KEY is set
    fill_batch_size,    \* argument batch_size
    fill_rows,          \* self.rows
    fill_todo,          \* rows_to_process, as indexes into self.rows
    fill_batch_start,   \* batch_start of the batch loop
    fill_errors,        \* row indexes logged in self.progress['errors']
    fill_pc,            \* "start", "batch", "sleep", "apply", "done", "raised"
    gen_log,            \* generate_missing_data_batch: "parsed", "failed", "sleep"
    gen_result,         \* its return value, or NoValue
    \* ---- one request to /valuation-report (app.py) ----
    report_price,       \* request.current_price, in EUR
    report_items,       \* request.damage_items
    report_pc,          \* "request", "valued", "priced", "responded"
    report_valuation,   \* final_property_value of the valuation in cents, or NoValue
    report_repairs,     \* repair_summary: NoValue (None) or the pricing response
    report_combined,    \* the returned dictionary, or NoValue
    report_status       \* status code of the answer, 0 before it

runVars == <<entry, use_mock, max_concurrent, damage_items, main_pc, semaphore,
             task, results, finished, response>>
projVars == <<cost_data, projection>>
httpVars == <<http_endpoint, http_body, http_pc, passed, reached, http_status>>
marketVars == <<market_price, market_reply, market_pc, market_rate>>
scrapeVars == <<scrape_url, scrape_max_images, scrape_pc, scrape_seen, scrape_result,
                scrape_raised, scrape_status, page_fetches>>
fillVars == <<fill_use_llm, fill_api_key, fill_batch_size, fill_rows, fill_todo,
              fill_batch_start, fill_errors, fill_pc, gen_log, gen_result>>
reportVars == <<report_price, report_items, report_pc, report_valuation,
                report_repairs, report_combined, report_status>>
auxVars == <<marketVars, scrapeVars, fillVars, reportVars>>
vars == <<runVars, projVars, httpVars, auxVars>>

\* Python's None (optional values are records: NoValue or a record of the value)
NoValue == [none |-> TRUE]

(***************************************************************************)
(* Bounds of the model.                                                    *)
(***************************************************************************)
MaxEvents == 2       \* longest maintenance_schedule of a projection input
MaxItems == 2        \* longest damage_items list of a call
MaxConcurrent == 2   \* largest max_concurrent of a call
MaxDamages == 2      \* longest list of damage items / annotations of a request

(***************************************************************************)
(* Exact decimal arithmetic standing in for Python floats.                 *)
(* A Num is a sequence of NumLimbs limbs in base LimbBase, least           *)
(* significant first; the lowest FracLimbs limbs are the fractional part   *)
(* (30 decimals, enough for 1.15 * 1.045^9 which has 29).                  *)
(***************************************************************************)
LimbBase == 1000
FracLimbs == 10
NumLimbs == 13

RECURSIVE MulFrom(_, _, _, _)
MulFrom(x, k, i, carry) ==
    IF i > Len(x) THEN <<>>
    ELSE LET v == x[i] * k + carry
         IN  <<v % LimbBase>> \o MulFrom(x, k, i + 1, v \div LimbBase)

\* x * k for a small natural k
NumTimes(x, k) == MulFrom(x, k, 1, 0)

RECURSIVE AddFrom(_, _, _, _)
AddFrom(x, y, i, carry) ==
    IF i > Len(x) THEN <<>>
    ELSE LET v == x[i] + y[i] + carry
         IN  <<v % LimbBase>> \o AddFrom(x, y, i + 1, v \div LimbBase)

\* x + y
NumPlus(x, y) == AddFrom(x, y, 1, 0)

\* x / 1000 (exact whenever the lowest limb is 0)
NumShift(x) == Tail(x) \o <<0>>

NumZero == [i \in 1..NumLimbs |-> 0]

\* the float of a natural number of EUR
NumOfInt(n) ==
    [i \in 1..NumLimbs |->
        IF i = FracLimbs + 1 THEN n % LimbBase
        ELSE IF i = FracLimbs + 2 THEN (n \div LimbBase) % LimbBase
        ELSE IF i = FracLimbs + 3 THEN n \div (LimbBase * LimbBase)
        ELSE 0]

NumIntPart(x) ==
    x[FracLimbs + 1] + LimbBase * x[FracLimbs + 2]
        + LimbBase * LimbBase * x[FracLimbs + 3]

\* x is exactly on a half cent: the third decimal is 5 and nothing follows
NumIsTie(x) ==
    /\ x[FracLimbs] % 10 = 5
    /\ \A i \in 1..(FracLimbs - 1) : x[i] = 0

\* round(x, 2), as a number of cents
Round2(x) ==
    NumIntPart(x) * 100 + (x[FracLimbs] \div 10)
        + (IF x[FracLimbs] % 10 >= 5 THEN 1 ELSE 0)

(***************************************************************************)
(* Python dictionaries are records; d.get(k, default).                     *)
(***************************************************************************)
EmptyDict == [x \in {} |-> 0]

Get(d, k, default) == IF k \in DOMAIN d THEN d[k] ELSE default

(***************************************************************************)
(* calculate_10year_projection                                             *)
(***************************************************************************)
INFLATION_RATE_PERMILLE == 45        \* INFLATION_RATE = 0.045
CONTINGENCY_BUFFER_PERCENT == 15     \* CONTINGENCY_BUFFER = 0.15
ProjectionYears == 10                \* range(1, 11)

\* (1 + INFLATION_RATE) ** n
RECURSIVE InflationPower(_)
InflationPower(n) ==
    IF n = 0 THEN NumOfInt(1)
    ELSE NumShift(NumTimes(InflationPower(n - 1), 1000 + INFLATION_RATE_PERMILLE))

InflationPowers == [n \in 0..ProjectionYears |-> InflationPower(n)]

\* a faulty variant of InflationExponent: it inflates year 1 as well
InflationExponentFromYear1(year) == year

\* the exponent applied to a maintenance event of the given year
InflationExponent(year) == year - 1

\* base_maint_cost * (1 + CONTINGENCY_BUFFER) * ((1 + INFLATION_RATE) ** (year - 1))
\* (x * 115 / 100 is computed as x * 1150 / 1000)
InflatedMaint(maint, year) ==
    NumShift(NumTimes(
        NumTimes(InflationPowers[InflationExponent(year)], maint.cost_EUR),
        (100 + CONTINGENCY_BUFFER_PERCENT) * 10))

\* maintenance_map: the events of the schedule whose year is in 1..10, by year
MaintenanceInRange(year) == 1 <= year /\ year <= ProjectionYears

MaintenanceMap(maintenance_schedule) ==
    [year \in {maintenance_schedule[i].year : i \in
                  {j \in 1..Len(maintenance_schedule) :
                      MaintenanceInRange(maintenance_schedule[j].year)}} |->
        SelectSeq(maintenance_schedule, LAMBDA m : m.year = year)]

\* maintenance_cost of one year: the loop over maintenance_map[year]
RECURSIVE SumInflated(_, _)
SumInflated(maints, year) ==
    IF maints = <<>> THEN NumZero
    ELSE NumPlus(InflatedMaint(Head(maints), year), SumInflated(Tail(maints), year))

YearMaintenance(maintenance_map, year) ==
    IF year \in DOMAIN maintenance_map
    THEN SumInflated(maintenance_map[year], year)
    ELSE NumZero

\* the unrounded maintenance_cost of the years 1..10
YearlyMaintenance(maintenance_map) ==
    [year \in 1..ProjectionYears |-> YearMaintenance(maintenance_map, year)]

\* cumulative_cost after each iteration of the loop over the years, starting
\* from the cumulative cost before it
RECURSIVE CumulativeFrom(_, _, _)
CumulativeFrom(cumulative_cost, yearly, year) ==
    IF year > ProjectionYears THEN <<>>
    ELSE LET c == NumPlus(cumulative_cost, yearly[year])
         IN  <<c>> \o CumulativeFrom(c, yearly, year + 1)

RECURSIVE SumSeq(_)
SumSeq(s) == IF s = <<>> THEN 0 ELSE Head(s) + SumSeq(Tail(s))

\* a faulty variant of YearlyCostEntry: it books the upfront cost in year 1
\* ("ONE-TIME expense (year 0 or year 1)" of the schedule prompt)
YearlyCostEntryUpfrontInYear1(year, upfront_inflated, maintenance_cost, cumulative_cost) ==
    [year |-> year,
     upfront_cost |-> IF year = 1 THEN Round2(upfront_inflated) ELSE 0,
     maintenance_cost |-> Round2(maintenance_cost),
     total_cost |-> Round2(maintenance_cost),
     cumulative_cost |-> Round2(cumulative_cost),
     is_upfront |-> year = 1]

\* the entry appended to yearly_costs for one year of the loop
YearlyCostEntry(year, upfront_inflated, maintenance_cost, cumulative_cost) ==
    [year |-> year,
     upfront_cost |-> 0,
     maintenance_cost |-> Round2(maintenance_cost),
     total_cost |-> Round2(maintenance_cost),
     cumulative_cost |-> Round2(cumulative_cost),
     is_upfront |-> FALSE]

calculate_10year_projection(cd) ==
    LET upfront_cost == Get(Get(cd, "upfront_repair", EmptyDict), "cost_EUR", 0)
        maintenance_map == MaintenanceMap(Get(cd, "maintenance_schedule", <<>>))
        upfront_inflated == NumOfInt(upfront_cost)
        yearly == YearlyMaintenance(maintenance_map)
        cumulative == CumulativeFrom(upfront_inflated, yearly, 1)
        year_0_data ==
            [year |-> 0,
             upfront_cost |-> Round2(upfront_inflated),
             maintenance_cost |-> 0,
             total_cost |-> Round2(upfront_inflated),
             cumulative_cost |-> Round2(upfront_inflated),
             is_upfront |-> TRUE]
        yearly_costs ==
            [year \in 1..ProjectionYears |->
                YearlyCostEntry(year, upfront_inflated, yearly[year], cumulative[year])]
        total_maintenance ==
            SumSeq([y \in 1..ProjectionYears |-> yearly_costs[y].maintenance_cost])
    IN  [upfront_cost |-> Round2(NumOfInt(upfront_cost)),
         total_maintenance_cost |-> total_maintenance,
         total_10year_cost |-> Round2(cumulative[ProjectionYears]),
         year_0 |-> year_0_data,
         yearly_costs |-> yearly_costs]

\* some amount the projection rounds lies exactly on a half cent
HasTie(cd) ==
    LET yearly == YearlyMaintenance(MaintenanceMap(cd.maintenance_schedule))
        cumulative == CumulativeFrom(NumOfInt(cd.upfront_repair.cost_EUR), yearly, 1)
    IN  \E y \in 1..ProjectionYears : NumIsTie(yearly[y]) \/ NumIsTie(cumulative[y])

(***************************************************************************)
(* Inputs of the projection: the schedules a model reply can carry.        *)
(***************************************************************************)
EventYears == {0, 1, 5, 9, 10, 11}
EventCosts == {200, 350}
UpfrontCosts == {0, 1200}

MaintEvents == [year : EventYears, cost_EUR : EventCosts]

SeqsUpTo(S, n) == UNION {[1..k -> S] : k \in 0..n}

CostDatas ==
    {cd \in [upfront_repair : [cost_EUR : UpfrontCosts],
             maintenance_schedule : SeqsUpTo(MaintEvents, MaxEvents)] :
        ~HasTie(cd)}

\* the variables of a call, when no call is modelled
NoRun ==
    /\ entry = "none"
    /\ use_mock = FALSE
    /\ max_concurrent = 0
    /\ damage_items = <<>>
    /\ main_pc = "none"
    /\ semaphore = 0
    /\ task = <<>>
    /\ results = <<>>
    /\ finished = <<>>
    /\ response = NoValue

\* the variables of a request, when no request is modelled
NoHttp ==
    /\ http_endpoint = "none"
    /\ http_body = <<>>
    /\ http_pc = "none"
    /\ passed = <<>>
    /\ reached = <<>>
    /\ http_status = 0

\* the variables of a market lookup, when none is modelled
NoMarket ==
    /\ market_price = 0
    /\ market_reply = NoValue
    /\ market_pc = "none"
    /\ market_rate = 0

\* the variables of a scrape request, when none is modelled
NoScrape ==
    /\ scrape_url = <<>>
    /\ scrape_max_images = 0
    /\ scrape_pc = "none"
    /\ scrape_seen = <<>>
    /\ scrape_result = NoValue
    /\ scrape_raised = ""
    /\ scrape_status = 0
    /\ page_fetches = 0

\* the variables of a run of the CSV filler, when none is modelled
NoFill ==
    /\ fill_use_llm = FALSE
    /\ fill_api_key = FALSE
    /\ fill_batch_size = 0
    /\ fill_rows = <<>>
    /\ fill_todo = <<>>
    /\ fill_batch_start = 0
    /\ fill_errors = <<>>
    /\ fill_pc = "none"
    /\ gen_log = <<>>
    /\ gen_result = NoValue

\* the variables of a valuation report, when none is modelled
NoReport ==
    /\ report_price = 0
    /\ report_items = <<>>
    /\ report_pc = "none"
    /\ report_valuation = NoValue
    /\ report_repairs = NoValue
    /\ report_combined = NoValue
    /\ report_status = 0

NoAux == NoMarket /\ NoScrape /\ NoFill /\ NoReport

InitProjection ==
    /\ cost_data \in CostDatas
    /\ projection = NoValue
    /\ NoRun
    /\ NoHttp
    /\ NoAux

Project ==
    /\ projection = NoValue
    /\ projection' = calculate_10year_projection(cost_data)
    /\ UNCHANGED <<cost_data, runVars, httpVars, auxVars>>

NextProjection == Project

SpecProjection == InitProjection /\ [][NextProjection]_vars

(***************************************************************************)
(* Texts.                                                                  *)
(***************************************************************************)
\* needle in hay
Contains(hay, needle) ==
    \E i \in 0..(Len(hay) - Len(needle)) :
        SubSeq(hay, i + 1, i + Len(needle)) = needle

\* str.lower(), word by word
LowerTable ==
    [w \in {"Boiler", "Pump", "Thermostatic", "Radiator", "Valves", "Air",
            "Conditioning", "Units", "Chimney", "The", "NOT", "REALISTIC",
            "Return", "ONLY", "JSON", "Item", "Known", "Category", "Complete",
            "COMPONENT", "INFORMATION", "Damage", "Severity", "Calculate",
            "TWO", "UPFRONT", "REPAIR", "COST", "MAINTENANCE", "SCHEDULE",
            "Heating", "Building", "Envelope", "Unknown", "Plumbing"} |->
        CASE w = "Boiler" -> "boiler"              [] w = "Pump" -> "pump"
          [] w = "Thermostatic" -> "thermostatic"  [] w = "Radiator" -> "radiator"
          [] w = "Valves" -> "valves"              [] w = "Air" -> "air"
          [] w = "Conditioning" -> "conditioning"  [] w = "Units" -> "units"
          [] w = "Chimney" -> "chimney"            [] w = "The" -> "the"
          [] w = "NOT" -> "not"                    [] w = "REALISTIC" -> "realistic"
          [] w = "Return" -> "return"              [] w = "ONLY" -> "only"
          [] w = "JSON" -> "json"                  [] w = "Item" -> "item"
          [] w = "Known" -> "known"                [] w = "Category" -> "category"
          [] w = "Complete" -> "complete"          [] w = "COMPONENT" -> "component"
          [] w = "INFORMATION" -> "information"    [] w = "Damage" -> "damage"
          [] w = "Severity" -> "severity"          [] w = "Calculate" -> "calculate"
          [] w = "TWO" -> "two"                    [] w = "UPFRONT" -> "upfront"
          [] w = "REPAIR" -> "repair"              [] w = "COST" -> "cost"
          [] w = "MAINTENANCE" -> "maintenance"    [] w = "SCHEDULE" -> "schedule"
          [] w = "Heating" -> "heating"            [] w = "Building" -> "building"
          [] w = "Envelope" -> "envelope"          [] w = "Unknown" -> "unknown"
          [] w = "Plumbing" -> "plumbing"]

Lower(text) ==
    [i \in 1..Len(text) |->
        IF text[i] \in DOMAIN LowerTable THEN LowerTable[text[i]] ELSE text[i]]

(***************************************************************************)
(* The CSV database (dataset/message.csv as pandas reads it).  A cell is   *)
(* a sequence of characters; an empty cell is read as NaN.                 *)
(***************************************************************************)
NaN == <<"NaN">>
Dash == <<"-">>

isna(cell) == cell = NaN

Database ==
    << [Category |-> <<"Heating">>, Item |-> <<"Boiler">>,
        Lifespan |-> <<"2", "0">>, PriceType |-> <<"Replacement">>,
        Price |-> <<"5", "0", "0", "0">>, Unit |-> <<"per piece">>],
       [Category |-> <<"Heating">>, Item |-> <<"Boiler", "Pump">>,
        Lifespan |-> <<"1", "5">>, PriceType |-> <<"Replacement">>,
        Price |-> Dash, Unit |-> <<"per piece">>],
       [Category |-> <<"Heating">>, Item |-> <<"Thermostatic", "Radiator", "Valves">>,
        Lifespan |-> <<"2", "0">>, PriceType |-> Dash,
        Price |-> Dash, Unit |-> Dash],
       [Category |-> <<"Heating">>, Item |-> <<"Air", "Conditioning", "Units">>,
        Lifespan |-> <<"k", "U">>, PriceType |-> <<"Replacement">>,
        Price |-> <<"3", "0", "0", "0">>, Unit |-> <<"per piece">>],
       [Category |-> <<"Chimney">>, Item |-> <<"Chimney">>,
        Lifespan |-> <<"4", "0">>, PriceType |-> <<"Replacement">>,
        Price |-> <<"2", "0", "0", "0">>, Unit |-> NaN] >>

load_damage_database == Database

\* df[df['Item/Subitem'].str.contains(damage_item, case=False, na=False, regex=False)]
find_damage_in_csv(df, damage_item) ==
    SelectSeq(df, LAMBDA row :
        ~isna(row.Item) /\ Contains(Lower(row.Item), Lower(damage_item)))

\* a faulty variant of FirstMatch: it works with the last matching row
LastMatch(matches) == matches[Len(matches)]

\* matches.iloc[0]
FirstMatch(matches) == matches[1]

Digits == {"0", "1", "2", "3", "4", "5", "6", "7", "8", "9"}

DigitValue(c) ==
    CASE c = "0" -> 0 [] c = "1" -> 1 [] c = "2" -> 2 [] c = "3" -> 3 [] c = "4" -> 4
      [] c = "5" -> 5 [] c = "6" -> 6 [] c = "7" -> 7 [] c = "8" -> 8 [] c = "9" -> 9

\* int(cell) / float(cell) raise ValueError unless the cell is a number
\* (the cells of the database are whole numbers or no numbers at all)
IsNumber(cell) == Len(cell) > 0 /\ \A i \in 1..Len(cell) : cell[i] \in Digits

RECURSIVE NumberOf(_)
NumberOf(cell) ==
    IF cell = <<>> THEN 0
    ELSE 10 * NumberOf(SubSeq(cell, 1, Len(cell) - 1)) + DigitValue(cell[Len(cell)])

\* a critical field is missing or '-'
NeedsLLM(item_data) ==
    \/ item_data.Price = Dash \/ isna(item_data.Price)
    \/ item_data.Unit = Dash \/ isna(item_data.Unit)
    \/ item_data.Lifespan = Dash \/ isna(item_data.Lifespan)
    \/ item_data.PriceType = Dash \/ isna(item_data.PriceType)

\* the structured dict, or NoValue (None) when the LLM is needed
parse_csv_data(item_data) ==
    IF NeedsLLM(item_data) THEN NoValue
    ELSE IF ~(IsNumber(item_data.Lifespan) /\ IsNumber(item_data.Price)) THEN NoValue
    ELSE [Category |-> item_data.Category,
          Item |-> item_data.Item,
          lifespan_years |-> NumberOf(item_data.Lifespan),
          price_type |-> item_data.PriceType,
          price_EUR |-> NumberOf(item_data.Price),
          unit |-> item_data.Unit,
          source |-> "csv_direct"]

\* the item_data built when the database has no match
UnknownItemData(damage_item) ==
    [Category |-> <<"Unknown">>, Item |-> damage_item,
     Lifespan |-> Dash, PriceType |-> Dash, Price |-> Dash, Unit |-> Dash]

(***************************************************************************)
(* Prompts: the words of the templates that the mock dispatch can see,     *)
(* with the interpolated item and category.                                *)
(***************************************************************************)
complete_missing_data_prompt(damage_item, partial_data) ==
    IF partial_data.Category = <<"Unknown">>
    THEN <<"The", "damage", "type">> \o damage_item
            \o <<"was", "NOT", "found", "in", "the", "standard", "building",
                 "components", "database", "provide", "REALISTIC", "repair",
                 "cost", "estimates", "immediate", "repair", "needs",
                 "Return", "ONLY", "valid", "JSON">>
    ELSE <<"Item">> \o damage_item \o <<"Known", "data", "Category">>
            \o partial_data.Category
            \o <<"Complete", "the", "missing", "fields", "with", "REALISTIC",
                 "estimates", "Return", "ONLY", "valid", "JSON">>

calculate_upfront_and_maintenance_prompt(damage_item, complete_data, severity) ==
    <<"COMPONENT", "INFORMATION", "Item">> \o damage_item
        \o <<"Category">> \o Get(complete_data, "Category", <<"Unknown">>)
        \o <<"Damage", "Severity", "Calculate", "TWO", "separate", "cost",
             "components", "UPFRONT", "REPAIR", "COST", "if", "severity",
             "MAINTENANCE", "SCHEDULE", "Return", "ONLY", "valid", "JSON">>

(***************************************************************************)
(* call_ai_model: who answers a prompt.                                    *)
(***************************************************************************)
MockCompletionMarkers == {<<"complete", "missing", "data">>, <<"complete", "the", "missing">>}
MockScheduleMarkers == {<<"calculate", "upfront">>, <<"upfront", "repair", "cost">>}

call_ai_model(prompt, mock) ==
    IF mock /\ \E m \in MockCompletionMarkers : Contains(Lower(prompt), m)
    THEN "mock_completion"
    ELSE IF mock /\ \E m \in MockScheduleMarkers : Contains(Lower(prompt), m)
    THEN "mock_schedule"
    ELSE "gemini"

\* the canned replies
MockCompletionReply ==
    [lifespan_years |-> 20, price_type |-> <<"Replacement">>, price_EUR |-> 500,
     unit |-> <<"per piece">>, reasoning |-> "Mock data for testing"]

MockScheduleReply ==
    [upfront_repair |-> [cost_EUR |-> 1200],
     maintenance_schedule |-> <<[year |-> 5, cost_EUR |-> 200],
                                [year |-> 9, cost_EUR |-> 350]>>,
     reasoning |-> "Mock calculation for testing"]

\* A reply text: a JSON document or something else, possibly in a ```json fence
JsonText(doc) == [fenced |-> FALSE, json |-> [value |-> doc]]
FencedJsonText(doc) == [fenced |-> TRUE, json |-> [value |-> doc]]
GarbageText == [fenced |-> FALSE, json |-> NoValue]

\* response.strip().replace('```json', '').replace('```', '')
StripFences(text) == [text EXCEPT !.fenced = FALSE]

\* json.loads: the document, or NoValue for JSONDecodeError
json_loads(text) == IF text.fenced THEN NoValue ELSE text.json

\* What the remote model may answer (the environment of the program)
GeminiCompletionDocs ==
    { [lifespan_years |-> 25, price_type |-> <<"Repair">>, price_EUR |-> 800,
       unit |-> <<"per m2">>, category |-> <<"Plumbing">>],
      [lifespan_years |-> 25, price_type |-> <<"Repair">>, unit |-> <<"per m2">>] }

GeminiScheduleDocs ==
    { [upfront_repair |-> [cost_EUR |-> 850],
       maintenance_schedule |-> <<[year |-> 1, cost_EUR |-> 200],
                                  [year |-> 11, cost_EUR |-> 350]>>,
       reasoning |-> "estimate"] }

Returns(text) == [raises |-> FALSE, text |-> text]
Raises == [raises |-> TRUE, text |-> GarbageText]

GeminiOutcomes(purpose) ==
    LET docs == IF purpose = "completion" THEN GeminiCompletionDocs
                ELSE GeminiScheduleDocs
    IN  {Raises, Returns(GarbageText)}
            \cup {Returns(JsonText(d)) : d \in docs}
            \cup {Returns(FencedJsonText(d)) : d \in docs}

\* the outcomes of one call, given who serves it
CallOutcomes(call) ==
    IF call.served_by = "mock_completion" THEN {Returns(JsonText(MockCompletionReply))}
    ELSE IF call.served_by = "mock_schedule" THEN {Returns(JsonText(MockScheduleReply))}
    ELSE GeminiOutcomes(call.purpose)

(***************************************************************************)
(* analyze_damage, between its awaits.                                     *)
(***************************************************************************)
\* complete_data after a parsed completion reply
CompletedData(doc, item_data) ==
    [k \in DOMAIN doc \cup {"Category", "Item", "source"} |->
        IF k = "Category"
        THEN IF item_data.Category = <<"Unknown">>
             THEN Get(doc, "category", <<"Building", "Envelope">>)
             ELSE item_data.Category
        ELSE IF k = "Item" THEN item_data.Item
        ELSE IF k = "source" THEN "llm_completed"
        ELSE doc[k]]

\* a faulty variant of FallbackData: it falls back to 500 EUR and 'Replacement'
FallbackDataReplacement(damage_item, item_data) ==
    [Category |-> item_data.Category, Item |-> damage_item, lifespan_years |-> 20,
     price_type |-> <<"Replacement">>, price_EUR |-> 500, unit |-> <<"per piece">>,
     source |-> "fallback"]

\* complete_data when the completion reply is not JSON
FallbackData(damage_item, item_data) ==
    [Category |-> item_data.Category, Item |-> damage_item, lifespan_years |-> 20,
     price_type |-> <<"Repair">>, price_EUR |-> 1000, unit |-> <<"per piece">>,
     source |-> "fallback"]

\* severity_mult, in tenths: {1: 0, 2: 1.3, 3: 1.7, 4: 2.3, 5: 3.0}.get(severity, 1.5)
\* a faulty variant of SeverityMultTenths: it applies the default multiplier 1.5
SeverityMultDefault(severity) == 15

SeverityMultTenths(severity) ==
    CASE severity = 1 -> 0 [] severity = 2 -> 13 [] severity = 3 -> 17
      [] severity = 4 -> 23 [] severity = 5 -> 30 [] OTHER -> 15

\* cost_data when the schedule reply is not JSON
\* (base prices are multiples of 10 EUR, so base_cost * severity_mult is whole)
FallbackCostData(complete_data, severity) ==
    [upfront_repair |->
        [cost_EUR |-> IF severity >= 2
                      THEN (Get(complete_data, "price_EUR", 1000)
                                * SeverityMultTenths(severity)) \div 10
                      ELSE 0,
         severity_multiplier_tenths |-> SeverityMultTenths(severity)],
     maintenance_schedule |-> <<>>,
     reasoning |-> "Fallback calculation due to parsing error"]

\* The schedules analyze_damage can hand to the projection in a call, with
\* their projections computed once (calculate_10year_projection is pure).
RunCostDatas ==
    {MockScheduleReply, MockCompletionReply} \cup GeminiScheduleDocs
        \cup {FallbackCostData([price_EUR |-> p], s) :
                 p \in {5000, 3000, 2000, 1000, 800, 500}, s \in 0..6}

ProjectionOfRun == [cd \in RunCostDatas |-> calculate_10year_projection(cd)]

Projection10Year(cd) ==
    IF cd \in RunCostDatas THEN ProjectionOfRun[cd]
    ELSE calculate_10year_projection(cd)

\* the dict analyze_damage returns
AnalysisResult(damage_item, severity, complete_data, cd) ==
    [damage_item |-> damage_item,
     severity |-> severity,
     component_data |->
        [category |-> Get(complete_data, "Category", NoValue),
         item |-> Get(complete_data, "Item", NoValue),
         lifespan_years |-> Get(complete_data, "lifespan_years", NoValue),
         base_price |-> Get(complete_data, "price_EUR", NoValue),
         unit |-> Get(complete_data, "unit", NoValue),
         data_source |-> Get(complete_data, "source", "unknown")],
     cost_breakdown |->
        [upfront_repair |-> Get(cd, "upfront_repair", EmptyDict),
         maintenance_schedule |-> Get(cd, "maintenance_schedule", <<>>)],
     projection_10year |-> Projection10Year(cd)]

(***************************************************************************)
(* The call: analyze_damages_for_endpoint(damage_items, use_mock,          *)
(* max_concurrent) or run_analyses_async(test_cases, ..., max_concurrent). *)
(***************************************************************************)
Endpoint == "analyze_damages_for_endpoint"
Batch == "run_analyses_async"

\* the damage items of the repository's own runs (test_integration.py and
\* the __main__ block of price_calculator.py), by the kind of their CSV row
DamageItemChoices ==
    { [item |-> <<"Boiler">>, severity |-> 5],
      [item |-> <<"crack">>, severity |-> 3],
      [item |-> <<"Thermostatic", "Radiator", "Valves">>, severity |-> 3] }

Tasks == 1..Len(damage_items)

InProgress(i) == task[i].pc \in {"completion", "schedule"}
Finished(i) == task[i].pc \in {"done", "failed"}

NewTask ==
    [pc |-> "pending", item_data |-> NoValue, complete_data |-> NoValue,
     calls |-> <<>>, steps |-> <<>>]

InitRun ==
    /\ entry \in {Endpoint, Batch}
    /\ use_mock \in BOOLEAN
    /\ max_concurrent \in -1..MaxConcurrent
    /\ damage_items \in SeqsUpTo(DamageItemChoices, MaxItems)
    /\ main_pc = "call"
    /\ semaphore = 0
    /\ task = [i \in 1..Len(damage_items) |-> NewTask]
    /\ results = [i \in 1..Len(damage_items) |-> NoValue]
    /\ finished = <<>>
    /\ response = NoValue

NoProjection ==
    /\ cost_data = EmptyDict
    /\ projection = NoValue

Init == InitRun /\ NoProjection /\ NoHttp /\ NoAux

\* semaphore = asyncio.Semaphore(max_concurrent); tasks = [...]; await gather
\* (Semaphore raises ValueError for a negative initial value)
CreateSemaphore ==
    /\ main_pc = "call"
    /\ IF max_concurrent < 0
       THEN /\ main_pc' = "raised"
            /\ UNCHANGED semaphore
       ELSE /\ main_pc' = "gather"
            /\ semaphore' = max_concurrent
    /\ UNCHANGED <<entry, use_mock, max_concurrent, damage_items, task, results,
                   finished, response, projVars, httpVars, auxVars>>

\* a model call is issued: the prompt decides who serves it
IssueCall(purpose, prompt) ==
    [purpose |-> purpose, served_by |-> call_ai_model(prompt, use_mock)]

\* the row analyze_damage works with: the first match, or the unknown item
LookupItemData(damage_item) ==
    LET matches == find_damage_in_csv(load_damage_database, damage_item)
    IN  IF matches = <<>> THEN UnknownItemData(damage_item)
        ELSE FirstMatch(matches)

LookupCompleteData(damage_item) ==
    LET matches == find_damage_in_csv(load_damage_database, damage_item)
    IN  IF matches = <<>> THEN NoValue
        ELSE parse_csv_data(FirstMatch(matches))

\* a faulty variant of CanAcquire: it enters without waiting for a free slot
CanAcquireAlways == TRUE

\* `async with semaphore` enters only while the semaphore has a free slot
CanAcquire == semaphore > 0

\* async with semaphore: ... analyze_damage up to its first await:
\* step 1 (CSV lookup), then the first model call is issued
StartAnalysis(i) ==
    /\ main_pc \in {"gather", "raised"}
    /\ task[i].pc = "pending"
    /\ CanAcquire
    /\ semaphore' = semaphore - 1
    /\ LET damage_item == damage_items[i].item
           item_data == LookupItemData(damage_item)
           complete_data == LookupCompleteData(damage_item)
       IN  task' = [task EXCEPT ![i] =
              IF complete_data = NoValue
              THEN [pc |-> "completion",
                    item_data |-> item_data,
                    complete_data |-> NoValue,
                    calls |-> <<IssueCall("completion",
                                   complete_missing_data_prompt(damage_item, item_data))>>,
                    steps |-> <<"csv_lookup", "completion_call">>]
              ELSE [pc |-> "schedule",
                    item_data |-> item_data,
                    complete_data |-> complete_data,
                    calls |-> <<IssueCall("schedule",
                                   calculate_upfront_and_maintenance_prompt(
                                       damage_item, complete_data, damage_items[i].severity))>>,
                    steps |-> <<"csv_lookup", "schedule_call">>]]
    /\ UNCHANGED <<entry, use_mock, max_concurrent, damage_items, main_pc, results,
                   finished, response, projVars, httpVars, auxVars>>

\* the task ends with an exception: the semaphore is released by `async with`
TaskRaises(i, message) ==
    /\ task' = [task EXCEPT ![i].pc = "failed"]
    /\ semaphore' = semaphore + 1
    /\ results' = [results EXCEPT ![i] = [exception |-> message]]
    /\ finished' = Append(finished, i)

\* the completion call returns: step 2 is finished and the schedule call issued
CompletionReply(i) ==
    /\ task[i].pc = "completion"
    /\ \E outcome \in CallOutcomes(task[i].calls[Len(task[i].calls)]) :
          LET damage_item == damage_items[i].item
              item_data == task[i].item_data
              parsed == json_loads(StripFences(outcome.text))
              complete_data ==
                  IF parsed = NoValue THEN FallbackData(damage_item, item_data)
                  ELSE CompletedData(parsed.value, item_data)
          IN  IF outcome.raises
              THEN TaskRaises(i, "model call failed")
              ELSE IF parsed # NoValue /\ "price_EUR" \notin DOMAIN parsed.value
              THEN TaskRaises(i, "KeyError: 'price_EUR'")
              ELSE /\ task' = [task EXCEPT ![i] =
                         [pc |-> "schedule",
                          item_data |-> item_data,
                          complete_data |-> complete_data,
                          calls |-> Append(task[i].calls,
                              IssueCall("schedule",
                                  calculate_upfront_and_maintenance_prompt(
                                      damage_item, complete_data,
                                      damage_items[i].severity))),
                          steps |-> Append(task[i].steps, "schedule_call")]]
                   /\ UNCHANGED <<semaphore, results, finished>>
    /\ UNCHANGED <<entry, use_mock, max_concurrent, damage_items, main_pc,
                   response, projVars, httpVars, auxVars>>

\* the schedule call returns: step 3 is finished, step 4 computes the
\* projection, analyze_damage returns and the semaphore is released
ScheduleReply(i) ==
    /\ task[i].pc = "schedule"
    /\ \E outcome \in CallOutcomes(task[i].calls[Len(task[i].calls)]) :
          LET complete_data == task[i].complete_data
              parsed == json_loads(StripFences(outcome.text))
              cd == IF parsed = NoValue
                    THEN FallbackCostData(complete_data, damage_items[i].severity)
                    ELSE parsed.value
          IN  IF outcome.raises
              THEN TaskRaises(i, "model call failed")
              ELSE /\ task' = [task EXCEPT ![i].pc = "done",
                                           ![i].steps = Append(@, "projection")]
                   /\ semaphore' = semaphore + 1
                   /\ results' = [results EXCEPT ![i] =
                         [value |-> AnalysisResult(damage_items[i].item,
                                        damage_items[i].severity, complete_data, cd)]]
                   /\ finished' = Append(finished, i)
    /\ UNCHANGED <<entry, use_mock, max_concurrent, damage_items, main_pc,
                   response, projVars, httpVars, auxVars>>

(***************************************************************************)
(* After gather.                                                           *)
(***************************************************************************)
IsException(result) == "exception" \in DOMAIN result

\* the indexes whose result satisfies the test, in the order of `order`
RECURSIVE SelectIndexes(_, _, _)
SelectIndexes(order, res, failed) ==
    IF order = <<>> THEN <<>>
    ELSE (IF IsException(res[Head(order)]) = failed THEN <<Head(order)>> ELSE <<>>)
            \o SelectIndexes(Tail(order), res, failed)

\* a faulty variant of GatherOrder: it visits the results in the order of completion
GatherOrderAsCompleted(n, done_order) == done_order

\* the order in which the loop `for i, result in enumerate(results)` visits the
\* results: gather returns them in the order of the awaitables
GatherOrder(n, done_order) == [i \in 1..n |-> i]

RECURSIVE SumOver(_, _)
SumOver(rs, field) ==
    IF rs = <<>> THEN 0
    ELSE Head(rs).projection_10year[field] + SumOver(Tail(rs), field)

\* a faulty variant of GrandTotal: it adds the two partial totals of each analysis
GrandTotalFromParts(successful_results) ==
    SumOver(successful_results, "upfront_cost")
        + SumOver(successful_results, "total_maintenance_cost")

\* grand_total = sum(r['projection_10year']['total_10year_cost'] for r in ...)
GrandTotal(successful_results) == SumOver(successful_results, "total_10year_cost")

BuildResponse(items, res, done_order) ==
    LET order == GatherOrder(Len(items), done_order)
        ok == SelectIndexes(order, res, FALSE)
        bad == SelectIndexes(order, res, TRUE)
        successful_results == [k \in 1..Len(ok) |-> res[ok[k]].value]
        failed_items == [k \in 1..Len(bad) |->
                            [item |-> items[bad[k]].item,
                             error |-> res[bad[k]].exception]]
    IN  [status |-> "success",
         summary |->
            [total_items_analyzed |-> Len(successful_results),
             total_items_requested |-> Len(items),
             failed_items_count |-> Len(failed_items),
             cost_breakdown |->
                [total_upfront_cost_EUR |->
                     SumOver(successful_results, "upfront_cost"),
                 total_maintenance_cost_EUR |->
                     SumOver(successful_results, "total_maintenance_cost"),
                 grand_total_10year_cost_EUR |-> GrandTotal(successful_results)]],
         analyses |-> successful_results,
         failed_items |-> IF failed_items = <<>> THEN NoValue
                          ELSE [list |-> failed_items]]

\* a faulty variant of ReturnExceptions: it gathers without return_exceptions
ReturnExceptionsNever(e) == FALSE

\* gather(*tasks, return_exceptions=True) in analyze_damages_for_endpoint,
\* gather(*tasks) in run_analyses_async
ReturnExceptions(e) == e = Endpoint

\* gather is over when every task has finished; the caller builds its return
\* value: the response dict, or [r for r in results if r is not None]
GatherReturns ==
    /\ main_pc = "gather"
    /\ \A i \in Tasks : Finished(i)
    /\ ReturnExceptions(entry) \/ \A i \in Tasks : task[i].pc = "done"
    /\ response' = IF entry = Endpoint
                   THEN BuildResponse(damage_items, results, finished)
                   ELSE [analyses |-> [i \in Tasks |-> results[i].value]]
    /\ main_pc' = "returned"
    /\ UNCHANGED <<entry, use_mock, max_concurrent, damage_items, semaphore, task,
                   results, finished, projVars, httpVars, auxVars>>

\* without return_exceptions gather propagates the first exception to the
\* caller; the other tasks are not cancelled and keep running
GatherRaises ==
    /\ main_pc = "gather"
    /\ ~ReturnExceptions(entry)
    /\ \E i \in Tasks : task[i].pc = "failed"
    /\ main_pc' = "raised"
    /\ UNCHANGED <<entry, use_mock, max_concurrent, damage_items, semaphore, task,
                   results, finished, response, projVars, httpVars, auxVars>>

Next ==
    \/ CreateSemaphore
    \/ \E i \in Tasks : StartAnalysis(i)
    \/ \E i \in Tasks : CompletionReply(i)
    \/ \E i \in Tasks : ScheduleReply(i)
    \/ GatherReturns
    \/ GatherRaises

Spec == Init /\ [][Next]_vars

\* calls that price one item, or the same item twice, at every severity 1..5
SeverityItems ==
    [item : {<<"Boiler">>, <<"crack">>}, severity : 1..5]

InitSeverity ==
    /\ entry \in {Endpoint, Batch}
    /\ use_mock \in BOOLEAN
    /\ max_concurrent \in 1..MaxConcurrent
    /\ damage_items \in {<<d>> : d \in SeverityItems}
            \cup {<<d, e>> : d, e \in {x \in SeverityItems : x.item = <<"Boiler">>}}
    /\ main_pc = "call"
    /\ semaphore = 0
    /\ task = [i \in 1..Len(damage_items) |-> NewTask]
    /\ results = [i \in 1..Len(damage_items) |-> NoValue]
    /\ finished = <<>>
    /\ response = NoValue
    /\ NoProjection
    /\ NoHttp
    /\ NoAux

SpecSeverity == InitSeverity /\ [][Next]_vars

\* the event loop runs every task that can run, and every model call returns
\* (with a reply or an exception): a step that stays possible is taken
SpecFair == Spec /\ WF_vars(Next)

(***************************************************************************)
(* The HTTP layer (app.py): how the damage items of a request reach        *)
(* analyze_damage.  Numbers that need not be whole (a severity can be a    *)
(* JSON float) are kept in tenths.                                         *)
(***************************************************************************)
CalculatePriceUrl == "/calculate-price"
ValuationReportUrl == "/valuation-report"
DetectAndPriceUrl == "/detect-and-price"

\* DamageItem.severity: int -- the values a validated request body can carry
RequestSeverities == -1..7

\* annotation["severity"] as the detection model may write it
\* (the prompt asks for a string; JSON allows numbers and null as well)
AnnotationSeverities ==
    { [kind |-> "int", tenths |-> 10 * n] : n \in {-2, 0, 1, 3, 5, 9} }
        \cup { [kind |-> "float", tenths |-> t] : t \in {45, 72} }
        \cup { [kind |-> "str", chars |-> c] :
                 c \in {<<"4">>, <<"9">>, <<"-", "2">>, <<"h", "i", "g", "h">>,
                        <<"4", ".", "5">>} }
        \cup { [kind |-> "null"] }

\* an annotation with or without the key "severity"
Annotations ==
    { [label |-> <<"crack">>] }
        \cup { [label |-> <<"crack">>, severity |-> s] : s \in AnnotationSeverities }

\* int(severity) for a string: an optional sign and digits, else ValueError
IsIntLiteral(chars) ==
    /\ Len(chars) > 0
    /\ IF chars[1] \in {"-", "+"} THEN IsNumber(Tail(chars)) ELSE IsNumber(chars)

IntOfLiteral(chars) ==
    IF chars[1] = "-" THEN 0 - NumberOf(Tail(chars))
    ELSE IF chars[1] = "+" THEN NumberOf(Tail(chars))
    ELSE NumberOf(chars)

IntValue(n) == [kind |-> "int", tenths |-> 10 * n]

\* severity = ann.get("severity", 3); a string is converted with int(), 3 on ValueError
ExtractSeverity(ann) ==
    LET severity == Get(ann, "severity", IntValue(3))
    IN  IF severity.kind = "str"
        THEN IF IsIntLiteral(severity.chars) THEN IntValue(IntOfLiteral(severity.chars))
             ELSE IntValue(3)
        ELSE severity

\* max(1, min(5, severity)) raises TypeError for None
ClampRaises(severity) == severity.kind = "null"

\* max(1, min(5, severity)): the bound when it applies, else the value itself
ClampSeverity(severity) ==
    IF severity.tenths > 50 THEN IntValue(5)
    ELSE IF severity.tenths < 10 THEN IntValue(1)
    ELSE severity

\* item_name = ann.get("subcategory", ann.get("label", "unknown"))
AnnotationItemName(ann) == Get(ann, "subcategory", Get(ann, "label", <<"unknown">>))

\* [item.dict() for item in request.damage_items]
RequestItemDict(item) == [item |-> item.item, severity |-> IntValue(item.severity)]

InitHttp ==
    /\ NoRun
    /\ NoProjection
    /\ NoAux
    /\ http_endpoint \in {CalculatePriceUrl, ValuationReportUrl, DetectAndPriceUrl}
    /\ IF http_endpoint = DetectAndPriceUrl
       THEN http_body \in SeqsUpTo(Annotations, MaxDamages)
       ELSE http_body \in SeqsUpTo([item : {<<"Boiler">>}, severity : RequestSeverities],
                                   MaxDamages)
    /\ http_pc = "request"
    /\ passed = <<>>
    /\ reached = <<>>
    /\ http_status = 0

\* POST /calculate-price
calculate_price ==
    /\ http_endpoint = CalculatePriceUrl
    /\ http_pc = "request"
    /\ passed' = [k \in 1..Len(http_body) |-> RequestItemDict(http_body[k])]
    /\ http_pc' = "pricing"
    /\ UNCHANGED <<http_endpoint, http_body, reached, http_status, runVars, projVars, auxVars>>

\* POST /valuation-report: the valuation first, then calculate_price when the
\* request has damage items
valuation_report ==
    /\ http_endpoint = ValuationReportUrl
    /\ http_pc = "request"
    /\ \E valuation_ok \in BOOLEAN :
          IF ~valuation_ok
          THEN /\ http_status' = 500
               /\ http_pc' = "responded"
               /\ UNCHANGED passed
          ELSE IF http_body = <<>>
          THEN /\ http_status' = 200
               /\ http_pc' = "responded"
               /\ UNCHANGED passed
          ELSE /\ passed' = [k \in 1..Len(http_body) |-> RequestItemDict(http_body[k])]
               /\ http_pc' = "pricing"
               /\ UNCHANGED http_status
    /\ UNCHANGED <<http_endpoint, http_body, reached, runVars, projVars, auxVars>>

\* POST /detect-and-price, after the detection: the annotations become damage items
detect_and_price ==
    /\ http_endpoint = DetectAndPriceUrl
    /\ http_pc = "request"
    /\ IF \E k \in 1..Len(http_body) : ClampRaises(ExtractSeverity(http_body[k]))
       THEN /\ http_status' = 500
            /\ http_pc' = "responded"
            /\ UNCHANGED passed
       ELSE IF http_body = <<>>
       THEN /\ http_status' = 200
            /\ http_pc' = "responded"
            /\ UNCHANGED passed
       ELSE /\ passed' = [k \in 1..Len(http_body) |->
                             [item |-> AnnotationItemName(http_body[k]),
                              severity |-> ClampSeverity(ExtractSeverity(http_body[k]))]]
            /\ http_pc' = "pricing"
            /\ UNCHANGED http_status
    /\ UNCHANGED <<http_endpoint, http_body, reached, runVars, projVars, auxVars>>

\* analyze_with_semaphore(item): analyze_damage(..., severity=item["severity"], ...)
\* (the interleaving of these calls is the subject of Spec)
analyze_with_semaphore ==
    /\ http_pc = "pricing"
    /\ Len(reached) < Len(passed)
    /\ reached' = Append(reached, passed[Len(reached) + 1].severity)
    /\ UNCHANGED <<http_endpoint, http_body, http_pc, passed, http_status,
                   runVars, projVars, auxVars>>

\* the pricing result is returned to the client
PricingResponds ==
    /\ http_pc = "pricing"
    /\ Len(reached) = Len(passed)
    /\ http_status' = 200
    /\ http_pc' = "responded"
    /\ UNCHANGED <<http_endpoint, http_body, passed, reached, runVars, projVars, auxVars>>

NextHttp ==
    \/ calculate_price
    \/ valuation_report
    \/ detect_and_price
    \/ analyze_with_semaphore
    \/ PricingResponds

SpecHttp == InitHttp /\ [][NextHttp]_vars

(***************************************************************************)
(* property_valuation.py: fetch_market_appreciation_rate.                  *)
(* A JSON value is a record: [num |-> n] (gross returns in hundredths of a *)
(* percent, prices in thousands), [str |-> s], or NoValue for null; a      *)
(* listing is a function from the keys it carries to JSON values.  Rates   *)
(* are in basis points (0.015 is 150).                                     *)
(***************************************************************************)
MaxListings == 2     \* longest list of results of a market reply

JsonNum(n) == [num |-> n]
JsonStr(text) == [str |-> text]

IsNum(v) == "num" \in DOMAIN v

\* truth value of a JSON value in Python
Truthy(v) ==
    IF IsNum(v) THEN v.num # 0
    ELSE IF "str" \in DOMAIN v THEN v.str # ""
    ELSE FALSE

DEFAULT_RATE == 150
FALLBACK_AVG_GROSS_RETURN == 350

\* a faulty variant of RateForAverage: its thresholds are inclusive
RateForAverageInclusive(total, count) ==
    IF total >= 500 * count THEN 250
    ELSE IF total >= 400 * count THEN 200
    ELSE IF total >= 300 * count THEN 150
    ELSE 100

\* the threshold table applied to avg_gross_return = total / count
RateForAverage(total, count) ==
    IF total > 500 * count THEN 250
    ELSE IF total > 400 * count THEN 200
    ELSE IF total > 300 * count THEN 150
    ELSE 100

\* current_price * 0.7 <= buyingPrice <= current_price * 1.3
PriceIsSimilar(buyingPrice, current_price) ==
    /\ 7 * current_price <= 10 * buyingPrice
    /\ 10 * buyingPrice <= 13 * current_price

RECURSIVE SumNums(_)
SumNums(values) ==
    IF values = <<>> THEN 0 ELSE Head(values).num + SumNums(Tail(values))

FirstN(seq, n) == SubSeq(seq, 1, IF Len(seq) < n THEN Len(seq) ELSE n)

\* similar = [r for r in results if ...]; similar = similar or results[:10]
SimilarListings(listings, current_price) ==
    LET IsSimilar(r) ==
            /\ Truthy(Get(r, "buyingPrice", NoValue))
            /\ PriceIsSimilar(r["buyingPrice"].num, current_price)
        filtered == SelectSeq(listings, IsSimilar)
    IN  IF filtered # <<>> THEN filtered ELSE FirstN(listings, 10)

\* gross_returns = [r["grossReturn"] for r in similar if r.get("grossReturn")]
GrossReturnsOf(similar) ==
    LET HasReturn(r) == Truthy(Get(r, "grossReturn", NoValue))
        picked == SelectSeq(similar, HasReturn)
    IN  [i \in 1..Len(picked) |-> picked[i]["grossReturn"]]

\* an operation on a value of the reply raises TypeError: the comparison of a
\* text price with the bounds, or the sum over a text gross return
RaisesTypeError(listings, current_price) ==
    \/ \E i \in 1..Len(listings) :
          /\ Truthy(Get(listings[i], "buyingPrice", NoValue))
          /\ ~IsNum(listings[i]["buyingPrice"])
    \/ /\ \A i \in 1..Len(listings) :
             Truthy(Get(listings[i], "buyingPrice", NoValue))
                 => IsNum(listings[i]["buyingPrice"])
       /\ LET gross_returns == GrossReturnsOf(SimilarListings(listings, current_price))
          IN  \E i \in 1..Len(gross_returns) : ~IsNum(gross_returns[i])

\* the body of the try block for a reply whose values are numbers
RateOfResults(listings, current_price) ==
    LET gross_returns == GrossReturnsOf(SimilarListings(listings, current_price))
    IN  IF gross_returns = <<>>
        THEN RateForAverage(FALLBACK_AVG_GROSS_RETURN, 1)
        ELSE RateForAverage(SumNums(gross_returns), Len(gross_returns))

\* a market reply: the request fails (connection, HTTP status, body that is
\* no JSON), or it carries a JSON object with or without "results"
RequestFails == [fails |-> TRUE]
ReplyWith(listings) == [fails |-> FALSE, body |-> [results |-> listings]]
ReplyWithoutResults == [fails |-> FALSE, body |-> EmptyDict]

fetch_market_appreciation_rate(current_price, reply) ==
    IF reply.fails THEN DEFAULT_RATE
    ELSE LET listings == Get(reply.body, "results", <<>>)
         IN  IF listings = <<>> THEN DEFAULT_RATE
             ELSE IF RaisesTypeError(listings, current_price) THEN DEFAULT_RATE
             ELSE RateOfResults(listings, current_price)

BuyingPrices == {NoValue, JsonNum(0), JsonNum(200), JsonNum(400), JsonStr("on request")}
GrossReturns == {NoValue, JsonNum(0), JsonNum(250), JsonNum(300), JsonNum(400),
                 JsonNum(500), JsonNum(600), JsonStr("n/a")}

MakeListing(buyingPrice, grossReturn) ==
    [k \in {key \in {"buyingPrice", "grossReturn"} :
               IF key = "buyingPrice" THEN buyingPrice # NoValue
               ELSE grossReturn # NoValue} |->
        IF k = "buyingPrice" THEN buyingPrice ELSE grossReturn]

Listings == {MakeListing(b, g) : b \in BuyingPrices, g \in GrossReturns}

MarketReplies ==
    {RequestFails, ReplyWithoutResults}
        \cup {ReplyWith(listings) : listings \in SeqsUpTo(Listings, MaxListings)}

InitMarket ==
    /\ NoRun
    /\ NoProjection
    /\ NoHttp
    /\ NoScrape
    /\ NoFill
    /\ NoReport
    /\ market_price = 400
    /\ market_reply \in MarketReplies
    /\ market_pc = "call"
    /\ market_rate = 0

FetchRate ==
    /\ market_pc = "call"
    /\ market_rate' = fetch_market_appreciation_rate(market_price, market_reply)
    /\ market_pc' = "returned"
    /\ UNCHANGED <<market_price, market_reply, runVars, projVars, httpVars, scrapeVars,
                   fillVars, reportVars>>

NextMarket == FetchRate

SpecMarket == InitMarket /\ [][NextMarket]_vars

(***************************************************************************)
(* immo24_scraper.py.  A URL is a sequence of tokens.  The data the        *)
(* extraction functions read off a page are the page's fields: what its    *)
(* JSON-LD block, the regular expressions, the CSS selectors and the LLM   *)
(* yield (price 0 and address "" stand for None), its image URLs           *)
(* (numbered), the listing cards of a search page, and a defect that makes *)
(* a library call on it raise.                                             *)
(***************************************************************************)
MaxPageImages == 2   \* most image URLs found on a page

SUPPORTED_SITES ==
    << [site |-> "immoscout24",
        patterns |-> <<"immobilienscout24.de", "immoscout24.de", "immo24">>],
       [site |-> "immowelt", patterns |-> <<"immowelt.de">>] >>

\* the first site one of whose patterns occurs in the URL, "" for None
_detect_site(url) ==
    LET lower_url == Lower(url)
        Matches(k) == \E j \in 1..Len(SUPPORTED_SITES[k].patterns) :
                          Contains(lower_url, <<SUPPORTED_SITES[k].patterns[j]>>)
        hits == {k \in 1..Len(SUPPORTED_SITES) : Matches(k)}
    IN  IF hits = {} THEN ""
        ELSE SUPPORTED_SITES[CHOOSE k \in hits : \A h \in hits : k <= h].site

SearchIndicators ==
    {"/suche/", "searchquery", "wohnung-mieten", "wohnung-kaufen", "haus-mieten",
     "haus-kaufen", "gewerbe-", "/search"}

_is_search_page(url) ==
    /\ \E indicator \in SearchIndicators : Contains(Lower(url), <<indicator>>)
    /\ ~Contains(Lower(url), <<"/expose/">>)

ImmoweltSearchIndicators ==
    {"/suche/", "/liste/", "wohnungen-mieten", "wohnungen-kaufen", "haeuser-mieten",
     "haeuser-kaufen", "wohnung-mieten", "haus-mieten", "haus-kaufen", "immobilien"}

_is_immowelt_search_page(url) ==
    IF Contains(Lower(url), <<"/expose/">>) THEN FALSE
    ELSE \E indicator \in ImmoweltSearchIndicators : Contains(Lower(url), <<indicator>>)

\* what one extraction method yields
Yield(price, address) == [price |-> price, address |-> address]
NoYield == Yield(0, "")

\* a or b, for prices and for texts
OrPrice(a, b) == IF a # 0 THEN a ELSE b
OrText(a, b) == IF a # "" THEN a ELSE b

\* no page: the fetch failed or was blocked
NoPage == [nopage |-> TRUE]

\* the exception a library call raises on a page with a defect:
\* urljoin on a malformed image URL, BeautifulSoup on markup the parser rejects
DefectException(defect) ==
    IF defect = "bad_image_url" THEN "ValueError" ELSE "ParserRejectedMarkup"

\* price = json_ld_data.get("price") or fallback_data.get("price"), ...
_parse_listing_html(page) ==
    [price |-> OrPrice(page.jsonld.price, page.regex.price),
     address |-> OrText(page.jsonld.address, page.regex.address),
     images |-> page.images]

\* a faulty variant of _extract_immowelt_listing_data: it reads JSON-LD first
ExtractImmoweltJsonLdFirst(page) ==
    [price |-> OrPrice(page.jsonld.price,
                 OrPrice(page.gemini.price,
                   OrPrice(page.selectors.price, page.regex.price))),
     address |-> OrText(page.jsonld.address,
                   OrText(page.gemini.address, page.selectors.address)),
     images |-> page.images]

\* the chain of _extract_immowelt_listing_data: LLM, then JSON-LD, then CSS
\* selectors, then (for the price) a regular expression
_extract_immowelt_listing_data(page) ==
    [price |-> OrPrice(page.gemini.price,
                 OrPrice(page.jsonld.price,
                   OrPrice(page.selectors.price, page.regex.price))),
     address |-> OrText(page.gemini.address,
                   OrText(page.jsonld.address, page.selectors.address)),
     images |-> page.images]

\* seq[:n] of Python
Slice(seq, n) ==
    IF n >= 0 THEN FirstN(seq, n)
    ELSE FirstN(seq, IF Len(seq) + n > 0 THEN Len(seq) + n ELSE 0)

\* a faulty variant of _download_images: it ignores max_images
DownloadAllImages(image_urls, max_images, broken) ==
    SelectSeq(image_urls, LAMBDA u : u \notin broken)

\* one photo per URL of image_urls[:max_images] whose download succeeds
_download_images(image_urls, max_images, broken) ==
    SelectSeq(Slice(image_urls, max_images), LAMBDA u : u \notin broken)

DEFAULT_MAX_IMAGES == 5

\* max_images or 5
OrDefaultImages(max_images) ==
    IF max_images # 0 THEN max_images ELSE DEFAULT_MAX_IMAGES

PriceOf(parsed) == IF parsed = NoValue THEN 0 ELSE parsed.price
AddressOf(parsed) == IF parsed = NoValue THEN "" ELSE parsed.address

Outcome(raises, result, fetches, seen) ==
    [raises |-> raises, result |-> result, fetches |-> fetches, seen |-> seen]

\* _fetch_single_listing: the browser copy first, then the copy fetched over
\* HTTP (its exceptions are swallowed), then the browser once more
_fetch_single_listing(max_images, playwright_available, rendered, requested, rendered_again, broken) ==
    LET limit == OrDefaultImages(max_images)
        has1 == playwright_available /\ rendered # NoPage
        parsed1 == IF has1 THEN _parse_listing_html(rendered) ELSE NoValue
        photos1 == IF has1 THEN _download_images(parsed1.images, limit, broken)
                   ELSE <<>>
        used1 == has1 /\ (photos1 # <<>> \/ parsed1.price # 0 \/ parsed1.address # "")
        enter2 == ~used1 \/ photos1 = <<>>
        ok2 == enter2 /\ requested # NoPage /\ requested.defect = ""
        parsed_r == _parse_listing_html(requested)
        photos_r == _download_images(parsed_r.images, limit, broken)
        take_all == ok2 /\ photos_r # <<>> /\ Len(photos_r) > Len(photos1)
        take_info == /\ ok2
                     /\ ~take_all
                     /\ photos1 = <<>>
                     /\ (parsed_r.price # 0 \/ parsed_r.address # "")
                     /\ (PriceOf(parsed1) = 0 /\ AddressOf(parsed1) = "")
        parsed2 == IF take_all \/ take_info THEN parsed_r ELSE parsed1
        photos2 == IF take_all THEN photos_r ELSE photos1
        used2 == IF take_all \/ take_info THEN FALSE ELSE used1
        enter3 == photos2 = <<>> /\ ~used2 /\ playwright_available
        has3 == enter3 /\ rendered_again # NoPage
        parsed3 == IF has3 THEN _parse_listing_html(rendered_again) ELSE parsed2
        photos3 == IF has3 THEN _download_images(parsed3.images, limit, broken)
                   ELSE photos2
        used3 == IF has3 THEN TRUE ELSE used2
        seen1 == IF playwright_available THEN <<rendered>> ELSE <<>>
        seen2 == IF enter2 THEN Append(seen1, requested) ELSE seen1
        seen3 == IF enter3 THEN Append(seen2, rendered_again) ELSE seen2
    IN  IF has1 /\ rendered.defect # ""
        THEN Outcome(DefectException(rendered.defect), NoValue, 1, seen1)
        ELSE IF has3 /\ rendered_again.defect # ""
        THEN Outcome(DefectException(rendered_again.defect), NoValue, Len(seen3), seen3)
        ELSE Outcome("",
                 [source |-> "immo24",
                  price |-> PriceOf(parsed3),
                  address |-> AddressOf(parsed3),
                  photos |-> photos3,
                  image_count |-> Len(photos3),
                  playwright_used |-> used3,
                  is_search_page |-> FALSE],
                 Len(seen3), seen3)

\* _fetch_search_page: the cards and images collected on the results page
_fetch_search_page(max_images, search_data, broken) ==
    LET listings == search_data.listings
        photos == _download_images(search_data.images, max_images, broken)
        first_price == IF listings # <<>> THEN listings[1].price ELSE 0
        first_address == IF listings # <<>> THEN listings[1].address ELSE ""
        base == [source |-> "immo24_search",
                 price |-> first_price,
                 address |-> first_address,
                 photos |-> photos,
                 image_count |-> Len(photos),
                 listings |-> listings,
                 playwright_used |-> TRUE,
                 is_search_page |-> TRUE]
        flagged == search_data.bot_detected \/ (listings = <<>> /\ photos = <<>>)
    IN  Outcome("",
            IF flagged
            THEN [k \in DOMAIN base \cup {"bot_detected", "warning"} |->
                     IF k = "bot_detected" THEN TRUE
                     ELSE IF k = "warning" THEN "use a direct listing URL"
                     ELSE base[k]]
            ELSE base,
            1, <<search_data>>)

\* _fetch_immowelt_listing: the browser copy, or the HTTP copy when the
\* browser got none
_fetch_immowelt_listing(url, max_images, playwright_available, rendered, requested, broken) ==
    LET is_search == _is_immowelt_search_page(url)
        page == IF rendered # NoPage THEN rendered ELSE requested
        seen1 == IF playwright_available THEN <<rendered>> ELSE <<>>
        seen == IF rendered = NoPage THEN Append(seen1, requested) ELSE seen1
        base == [source |-> "immowelt.de", price |-> 0, address |-> "",
                 photos |-> <<>>, listings |-> <<>>, is_search_page |-> is_search]
        data == _extract_immowelt_listing_data(page)
        cards == page.listings
    IN  IF page = NoPage
        THEN Outcome("",
                 [k \in DOMAIN base \cup {"error"} |->
                     IF k = "error" THEN "Failed to fetch page content" ELSE base[k]],
                 Len(seen), seen)
        ELSE IF page.defect = "rejected"
        THEN Outcome(DefectException(page.defect), NoValue, Len(seen), seen)
        ELSE Outcome("",
                 [base EXCEPT
                     !.price = IF is_search
                               THEN (IF cards # <<>> THEN cards[1].price ELSE 0)
                               ELSE data.price,
                     !.address = IF is_search
                                 THEN (IF cards # <<>> THEN cards[1].address ELSE "")
                                 ELSE data.address,
                     !.listings = IF is_search THEN cards ELSE <<>>,
                     !.photos = _download_images(page.images, max_images, broken)],
                 Len(seen), seen)

\* the last step of fetch_immo24_listing for an ImmoScout24 URL
\* (result.get("listings") of a result without the key is None)
FlagBotDetection(result) ==
    IF result.photos = <<>> /\ Get(result, "listings", <<>>) = <<>>
    THEN [k \in DOMAIN result \cup {"bot_detected", "warning"} |->
             IF k = "bot_detected" THEN TRUE
             ELSE IF k = "warning" THEN "blocked by bot detection"
             ELSE result[k]]
    ELSE result

(***************************************************************************)
(* What a site can serve, and the requests of the model.                   *)
(***************************************************************************)
ScrapeUrls ==
    { <<>>,
      <<"https://", "www.", "example.com", "/expose/", "1">>,
      <<"https://", "www.", "immowelt.de", "/expose/", "1">>,
      <<"https://", "www.", "immowelt.de", "/suche/", "muenchen">>,
      <<"https://", "www.", "immobilienscout24.de", "/expose/", "1">>,
      <<"https://", "www.", "immobilienscout24.de", "/suche/", "berlin">> }

RequestMaxImages == -1..MaxPageImages

ImagesUpTo(n) == [i \in 1..n |-> i]
ImageLists == {ImagesUpTo(n) : n \in 0..MaxPageImages}
AllOrNoImages == {<<>>, ImagesUpTo(MaxPageImages)}

JsonLdYields == {NoYield, Yield(450, ""), Yield(0, "Ld-Str. 1"), Yield(450, "Ld-Str. 1")}
RegexYields == {NoYield, Yield(470, "Rx-Str. 1")}
GeminiYields == {NoYield, Yield(480, ""), Yield(480, "Ai-Str. 1")}
SelectorYields == {NoYield, Yield(490, "Css-Str. 1")}
Cards == {<<>>, <<Yield(300, "Card-Str. 1")>>, <<NoYield>>}

MakePage(gemini, jsonld, selectors, regex, images, listings, defect) ==
    [gemini |-> gemini, jsonld |-> jsonld, selectors |-> selectors, regex |-> regex,
     images |-> images, listings |-> listings, defect |-> defect]

DefectPage(defect) ==
    MakePage(NoYield, Yield(450, "Ld-Str. 1"), NoYield, NoYield,
             ImagesUpTo(MaxPageImages), <<>>, defect)

\* copies of an ImmoScout24 listing page: in the browser, over HTTP, and in
\* the browser again
RenderedListingPages ==
    {NoPage, DefectPage("bad_image_url"), DefectPage("rejected")}
        \cup {MakePage(NoYield, j, NoYield, r, i, <<>>, "") :
                 j \in JsonLdYields, r \in RegexYields, i \in ImageLists}

RequestedListingPages ==
    {NoPage, DefectPage("bad_image_url")}
        \cup {MakePage(NoYield, j, NoYield, r, i, <<>>, "") :
                 j \in {NoYield, Yield(451, "Ld-Str. 2")}, r \in RegexYields,
                 i \in AllOrNoImages}

AgainListingPages ==
    {NoPage, DefectPage("rejected"),
     MakePage(NoYield, Yield(452, "Ld-Str. 3"), NoYield, NoYield,
              ImagesUpTo(MaxPageImages), <<>>, ""),
     MakePage(NoYield, NoYield, NoYield, NoYield, <<>>, <<>>, "")}

\* copies of an Immowelt page
ImmoweltPages ==
    {NoPage, DefectPage("rejected")}
        \cup {MakePage(g, j, c, r, i, l, "") :
                 g \in GeminiYields, j \in JsonLdYields, c \in SelectorYields,
                 r \in RegexYields, i \in AllOrNoImages, l \in {<<>>}}
        \cup {MakePage(NoYield, NoYield, NoYield, NoYield, i, l, "") :
                 i \in AllOrNoImages, l \in Cards}

ImmoweltRequestedPages ==
    {NoPage,
     MakePage(NoYield, Yield(451, "Ld-Str. 2"), NoYield, NoYield,
              ImagesUpTo(MaxPageImages), <<Yield(300, "Card-Str. 1")>>, "")}

\* what _extract_search_results_with_playwright returns
SearchDatas ==
    [listings : Cards, images : ImageLists, bot_detected : BOOLEAN]

\* the image URLs whose download fails
BrokenSets == {{}, {1}, 1..MaxPageImages}

InitScrape ==
    /\ NoRun
    /\ NoProjection
    /\ NoHttp
    /\ NoMarket
    /\ NoFill
    /\ NoReport
    /\ scrape_url \in ScrapeUrls
    /\ scrape_max_images \in RequestMaxImages
    /\ scrape_pc = "request"
    /\ scrape_seen = <<>>
    /\ scrape_result = NoValue
    /\ scrape_raised = ""
    /\ scrape_status = 0
    /\ page_fetches = 0

OtherThanScrape == <<runVars, projVars, httpVars, marketVars, fillVars, reportVars>>

\* the endpoint calls fetch_immo24_listing, which validates the URL and
\* dispatches on the site
scrape_immo24_listing ==
    /\ scrape_pc = "request"
    /\ LET site == _detect_site(scrape_url)
       IN  IF scrape_url = <<>> \/ site = ""
           THEN /\ scrape_raised' = "ValueError"
                /\ scrape_pc' = "raised"
           ELSE /\ scrape_raised' = ""
                /\ scrape_pc' = IF site = "immowelt" THEN "immowelt"
                                ELSE IF _is_search_page(scrape_url) THEN "search"
                                ELSE "single"
    /\ UNCHANGED <<scrape_url, scrape_max_images, scrape_seen, scrape_result,
                   scrape_status, page_fetches, OtherThanScrape>>

\* a fetch function is over: it returned a result or raised
Fetched(outcome, next_pc) ==
    /\ scrape_seen' = outcome.seen
    /\ page_fetches' = page_fetches + outcome.fetches
    /\ IF outcome.raises # ""
       THEN /\ scrape_raised' = outcome.raises
            /\ scrape_pc' = "raised"
            /\ UNCHANGED scrape_result
       ELSE /\ scrape_result' = outcome.result
            /\ scrape_pc' = next_pc
            /\ UNCHANGED scrape_raised
    /\ UNCHANGED <<scrape_url, scrape_max_images, scrape_status, OtherThanScrape>>

FetchImmoweltListing ==
    /\ scrape_pc = "immowelt"
    /\ \E playwright_available \in BOOLEAN, rendered \in ImmoweltPages,
          requested \in ImmoweltRequestedPages, broken \in BrokenSets :
          /\ ~playwright_available => rendered = NoPage
          /\ rendered # NoPage => requested = NoPage
          /\ Fetched(_fetch_immowelt_listing(scrape_url, scrape_max_images,
                         playwright_available, rendered, requested, broken),
                     "returned")

FetchSingleListing ==
    /\ scrape_pc = "single"
    /\ \E playwright_available \in BOOLEAN, rendered \in RenderedListingPages,
          requested \in RequestedListingPages, rendered_again \in AgainListingPages,
          broken \in BrokenSets :
          /\ ~playwright_available => (rendered = NoPage /\ rendered_again = NoPage)
          /\ Fetched(_fetch_single_listing(scrape_max_images, playwright_available,
                         rendered, requested, rendered_again, broken),
                     "fetched")

FetchSearchPage ==
    /\ scrape_pc = "search"
    /\ \E search_data \in SearchDatas, broken \in BrokenSets :
          Fetched(_fetch_search_page(scrape_max_images, search_data, broken), "fetched")

\* fetch_immo24_listing checks the ImmoScout24 result for a blocked scrape
CheckBotDetection ==
    /\ scrape_pc = "fetched"
    /\ scrape_result' = FlagBotDetection(scrape_result)
    /\ scrape_pc' = "returned"
    /\ UNCHANGED <<scrape_url, scrape_max_images, scrape_seen, scrape_raised,
                   scrape_status, page_fetches, OtherThanScrape>>

\* the endpoint returns the data, or converts the exception
ScrapeResponds ==
    /\ scrape_pc \in {"returned", "raised"}
    /\ scrape_status' = IF scrape_pc = "returned" THEN 200
                        ELSE IF scrape_raised = "ValueError" THEN 400
                        ELSE 500
    /\ scrape_pc' = "responded"
    /\ UNCHANGED <<scrape_url, scrape_max_images, scrape_seen, scrape_result,
                   scrape_raised, page_fetches, OtherThanScrape>>

NextScrape ==
    \/ scrape_immo24_listing
    \/ FetchImmoweltListing
    \/ FetchSingleListing
    \/ FetchSearchPage
    \/ CheckBotDetection
    \/ ScrapeResponds

SpecScrape == InitScrape /\ [][NextScrape]_vars

(***************************************************************************)
(* The CSV filler (src/dataset/generate_csv_data.py).  A row is a record   *)
(* of strings; a model reply is a text made of code fences, the word json  *)
(* and one body, which is JSON or not.                                     *)
(***************************************************************************)
MaxRows == 2
MAX_RETRIES == 3

FieldNames == <<"lifespan", "price_type", "price", "unit">>

\* the strings that mark a field as missing
MissingMarks(field) ==
    IF field = "lifespan" THEN {"-", "", "kU"} ELSE {"-", ""}

get_missing_fields(row) ==
    SelectSeq(FieldNames, LAMBDA field : row[field] \in MissingMarks(field))

has_missing_data(row) == Len(get_missing_fields(row)) > 0

SetOf(seq) == {seq[i] : i \in DOMAIN seq}

DefaultValue(field) ==
    CASE field = "lifespan" -> JsonNum(20)
      [] field = "price_type" -> JsonStr("Replacement")
      [] field = "price" -> JsonNum(500)
      [] OTHER -> JsonStr("per piece")

\* a faulty variant of _get_defaults: it returns a default for every field
DefaultsForAllFields(row, missing_fields) ==
    [field \in SetOf(FieldNames) |-> DefaultValue(field)]

_get_defaults(row, missing_fields) ==
    [field \in SetOf(FieldNames) \cap SetOf(missing_fields) |-> DefaultValue(field)]

\* the per-category table of _generate_rule_based
CategoryDefaults(category) ==
    CASE category = "Kitchen" -> [lifespan |-> 15, price |-> 1000]
      [] category = "Chimney" -> [lifespan |-> 20, price |-> 1000]
      [] OTHER -> [lifespan |-> 20, price |-> 500]

_generate_rule_based(row) ==
    LET defaults == CategoryDefaults(row.category)
    IN  [field \in SetOf(get_missing_fields(row)) |->
            CASE field = "lifespan" -> JsonNum(defaults.lifespan)
              [] field = "price_type" -> JsonStr("Replacement")
              [] field = "price" -> JsonNum(defaults.price)
              [] OTHER -> JsonStr("per piece")]

\* str() of a JSON number or string
StrOf(value) == IF IsNum(value) THEN ToString(value.num) ELSE value.str

_apply_filled_data(row, data) ==
    [key \in DOMAIN row |->
        IF key \in SetOf(FieldNames) /\ key \in DOMAIN data
        THEN StrOf(data[key])
        ELSE row[key]]

\* ---- the reply of the model and its parsing ----
Fence == [fence |-> TRUE]
WordJson == [word |-> "json"]
NotJson == [notjson |-> TRUE]
JsonList(items) == [list |-> items]
JsonDict(object) == [dict |-> object]
ModelRaises == [raises |-> TRUE]

\* result.split("```")[1]: the text between the first and the second fence
RECURSIVE UpToFence(_)
UpToFence(text) ==
    IF text = <<>> \/ Head(text) = Fence
    THEN <<>>
    ELSE <<Head(text)>> \o UpToFence(Tail(text))

StripFence(text) ==
    IF text # <<>> /\ Head(text) = Fence
    THEN LET inner == UpToFence(Tail(text))
         IN  IF inner # <<>> /\ Head(inner) = WordJson THEN Tail(inner) ELSE inner
    ELSE text

\* json.loads accepts a text that is exactly one JSON body
IsJsonText(text) == Len(text) = 1 /\ text[1] \notin {Fence, WordJson, NotJson}

ReplyParses(reply) == reply # ModelRaises /\ IsJsonText(StripFence(reply.text))

\* the value one attempt returns: a dictionary is wrapped into a list
ParsedReply(reply) ==
    LET parsed == StripFence(reply.text)[1]
    IN  IF "dict" \in DOMAIN parsed THEN JsonList(<<parsed.dict>>) ELSE parsed

\* the return value when every attempt failed
DefaultsForBatch(rows) ==
    JsonList([i \in 1..Len(rows) |-> _get_defaults(rows[i], get_missing_fields(rows[i]))])

\* ---- the batch loop of fill_missing_data ----
MinOf(a, b) == IF a < b THEN a ELSE b

rows_to_process(rows, processed) ==
    SelectSeq([i \in 1..Len(rows) |-> i],
              LAMBDA i : has_missing_data(rows[i]) /\ i - 1 >= processed)

\* rows_to_process[batch_start:batch_start + batch_size], as row indexes
BatchAt(todo, batch_start, batch_size) ==
    SubSeq(todo, batch_start + 1, MinOf(batch_start + batch_size, Len(todo)))

CurrentBatch == BatchAt(fill_todo, fill_batch_start, fill_batch_size)
BatchRows == [k \in 1..Len(CurrentBatch) |-> fill_rows[CurrentBatch[k]]]

\* the rows after filled_data_list was applied to the batch, pair by pair
ApplyList(rows, batch, filled_data_list) ==
    [i \in 1..Len(rows) |->
        IF \E k \in 1..MinOf(Len(batch), Len(filled_data_list)) : batch[k] = i
        THEN LET k == CHOOSE k \in 1..Len(batch) : batch[k] = i
                 data == filled_data_list[k]
             IN  _apply_filled_data(rows[i],
                    [key \in DOMAIN data \ {"item_index"} |-> data[key]])
        ELSE rows[i]]

\* ---- what the model may answer for a batch ----
FilledValue(field) ==
    CASE field = "lifespan" -> JsonNum(25)
      [] field = "price_type" -> JsonStr("Repair")
      [] field = "price" -> JsonNum(300)
      [] OTHER -> JsonStr("per m")

\* one object per row, with exactly the row's missing fields and item_index
FullObject(row, index) ==
    [key \in SetOf(get_missing_fields(row)) \cup {"item_index"} |->
        IF key = "item_index" THEN JsonNum(index) ELSE FilledValue(key)]

FullList(rows) == JsonList([i \in 1..Len(rows) |-> FullObject(rows[i], i)])

\* one object per row that estimates the price only
PriceOnlyList(rows) == JsonList([i \in 1..Len(rows) |-> [price |-> JsonNum(300)]])

ReplyBodies(rows) ==
    {FullList(rows), PriceOnlyList(rows), JsonList(<<>>),
     JsonDict(FullObject(rows[1], 1)), JsonNum(5), NotJson}

ModelReplies(rows) ==
    {[text |-> <<body>>] : body \in ReplyBodies(rows)}
        \cup {[text |-> <<Fence, WordJson, body, Fence>>] :
                 body \in {FullList(rows), NotJson}}
        \cup {[text |-> <<Fence, FullList(rows), Fence>>],
              [text |-> <<Fence>>],
              [text |-> <<WordJson, FullList(rows)>>],
              ModelRaises}

\* ---- the rows of the file ----
MakeRow(category, lifespan, price_type, price, unit) ==
    [category |-> category, lifespan |-> lifespan, price_type |-> price_type,
     price |-> price, unit |-> unit]

RowChoices ==
    {MakeRow("Kitchen", "15", "Replacement", "1000", "per piece"),
     MakeRow("Kitchen", "kU", "Replacement", "-", "per piece"),
     MakeRow("Garden", "-", "-", "-", "-"),
     MakeRow("Chimney", "", "Repair", "200", "")}

BatchSizes == {-1, 0, 1, 2}

InitFill ==
    /\ NoRun
    /\ NoProjection
    /\ NoHttp
    /\ NoMarket
    /\ NoScrape
    /\ NoReport
    /\ fill_use_llm \in BOOLEAN
    /\ fill_api_key \in BOOLEAN
    /\ fill_batch_size \in BatchSizes
    /\ fill_rows \in SeqsUpTo(RowChoices, MaxRows)
    /\ fill_todo = <<>>
    /\ fill_batch_start = 0
    /\ fill_errors = <<>>
    /\ fill_pc = "start"
    /\ gen_log = <<>>
    /\ gen_result = NoValue

OtherThanFill == <<runVars, projVars, httpVars, marketVars, scrapeVars, reportVars>>

\* fill_missing_data up to its batch loop: the API key, the rows to process
\* (no progress file: processed is 0), the batch count of the announcement
FillStart ==
    /\ fill_pc = "start"
    /\ IF fill_use_llm /\ ~fill_api_key
       THEN /\ fill_pc' = "done"
            /\ UNCHANGED fill_todo
       ELSE /\ fill_todo' = rows_to_process(fill_rows, 0)
            /\ fill_pc' = IF fill_batch_size = 0 THEN "raised"
                          ELSE IF fill_batch_size < 0 \/ fill_todo' = <<>> THEN "done"
                          ELSE "batch"
    /\ UNCHANGED <<fill_use_llm, fill_api_key, fill_batch_size, fill_rows,
                   fill_batch_start, fill_errors, gen_log, gen_result, OtherThanFill>>

\* the end of one pass of the batch loop
NextBatch ==
    /\ fill_batch_start' = fill_batch_start + fill_batch_size
    /\ fill_pc' = IF fill_batch_start + fill_batch_size < Len(fill_todo)
                  THEN "batch" ELSE "done"

\* one batch in rule-based mode
FillRuleBased ==
    /\ fill_pc = "batch"
    /\ ~fill_use_llm
    /\ fill_rows' = [i \in 1..Len(fill_rows) |->
                        IF i \in SetOf(CurrentBatch)
                        THEN _apply_filled_data(fill_rows[i],
                                                _generate_rule_based(fill_rows[i]))
                        ELSE fill_rows[i]]
    /\ NextBatch
    /\ UNCHANGED <<fill_use_llm, fill_api_key, fill_batch_size, fill_todo,
                   fill_errors, gen_log, gen_result, OtherThanFill>>

Attempts(log) == Len(SelectSeq(log, LAMBDA event : event # "sleep"))

\* one attempt of generate_missing_data_batch: it returns the parsed reply,
\* or goes on to the delay, or (last attempt) returns the defaults
CallModel ==
    /\ fill_pc = "batch"
    /\ fill_use_llm
    /\ \E reply \in ModelReplies(BatchRows) :
          IF ReplyParses(reply)
          THEN /\ gen_log' = Append(gen_log, "parsed")
               /\ gen_result' = ParsedReply(reply)
               /\ fill_pc' = "apply"
          ELSE /\ gen_log' = Append(gen_log, "failed")
               /\ IF Attempts(gen_log) < MAX_RETRIES - 1
                  THEN fill_pc' = "sleep" /\ UNCHANGED gen_result
                  ELSE /\ gen_result' = DefaultsForBatch(BatchRows)
                       /\ fill_pc' = "apply"
    /\ UNCHANGED <<fill_use_llm, fill_api_key, fill_batch_size, fill_rows, fill_todo,
                   fill_batch_start, fill_errors, OtherThanFill>>

\* time.sleep(RETRY_DELAY) of a failed attempt that is not the last
RetryDelay ==
    /\ fill_pc = "sleep"
    /\ gen_log' = Append(gen_log, "sleep")
    /\ fill_pc' = "batch"
    /\ UNCHANGED <<fill_use_llm, fill_api_key, fill_batch_size, fill_rows, fill_todo,
                   fill_batch_start, fill_errors, gen_result, OtherThanFill>>

\* the returned list is applied to the rows of the batch; a value that zip
\* cannot iterate raises, and the error is logged for every row of the batch
ApplyBatch ==
    /\ fill_pc = "apply"
    /\ IF "list" \in DOMAIN gen_result
       THEN /\ fill_rows' = ApplyList(fill_rows, CurrentBatch, gen_result.list)
            /\ UNCHANGED fill_errors
       ELSE /\ fill_errors' = fill_errors \o CurrentBatch
            /\ UNCHANGED fill_rows
    /\ NextBatch
    /\ gen_log' = <<>>
    /\ gen_result' = NoValue
    /\ UNCHANGED <<fill_use_llm, fill_api_key, fill_batch_size, fill_todo,
                   OtherThanFill>>

NextFill == FillStart \/ FillRuleBased \/ CallModel \/ RetryDelay \/ ApplyBatch

SpecFill == InitFill /\ [][NextFill]_vars

(***************************************************************************)
(* /valuation-report (app.py): the valuation, the optional pricing of the  *)
(* damage items, and the insights.  Amounts are in cents, the ratio in     *)
(* hundredths of a percent.                                                *)
(***************************************************************************)
MaxReportItems == 2

\* (1 + appreciation_rate) ** n, for a rate in permille
RECURSIVE GrowthPower(_, _)
GrowthPower(rate_permille, n) ==
    IF n = 0 THEN NumOfInt(1)
    ELSE NumShift(NumTimes(GrowthPower(rate_permille, n - 1), 1000 + rate_permille))

RatesPermille == {10, 15, 20, 25}
GrowthOver10Years == [rate \in RatesPermille |-> GrowthPower(rate, ProjectionYears)]

\* final_property_value = round(current_price * (1 + rate) ** 10, 2)
final_property_value(current_price, rate_permille) ==
    Round2(NumTimes(GrowthOver10Years[rate_permille], current_price))

\* a faulty variant of repair_to_value_ratio: it relates the repairs to the final value
RatioToFinalValue(total_repairs, current_price, final_value) ==
    (2 * 100 * total_repairs + final_value \div 100) \div (2 * (final_value \div 100))

\* round((total_repairs / current_price) * 100, 2)
repair_to_value_ratio(total_repairs, current_price, final_value) ==
    (2 * 100 * total_repairs + current_price) \div (2 * current_price)

\* `repair_summary and repair_summary.get("analyses")`
HasAnalyses(repair_summary) ==
    repair_summary # NoValue /\ repair_summary.analyses # <<>>

Insights(repair_summary, current_price, final_value) ==
    LET total_repairs ==
            repair_summary.summary.cost_breakdown.grand_total_10year_cost_EUR
    IN  [net_projected_value |-> final_value - total_repairs,
         repair_to_value_ratio |->
            repair_to_value_ratio(total_repairs, current_price, final_value)]

Combined(current_price, final_value, repair_summary) ==
    LET combined == [current_price |-> current_price,
                     valuation |-> final_value,
                     repairs |-> repair_summary]
    IN  IF HasAnalyses(repair_summary)
        THEN [key \in DOMAIN combined \cup {"insights"} |->
                 IF key = "insights"
                 THEN Insights(repair_summary, current_price, final_value)
                 ELSE combined[key]]
        ELSE combined

\* ---- the requests and what the pricing of an item may give ----
ReportPrices == {0, 200000, 300000}
ReportItemNames == {"Boiler", "crack"}

\* the projection totals of an analysis, in cents
PricedProjection(upfront, maintenance) ==
    [value |-> [projection_10year |->
                   [upfront_cost |-> upfront,
                    total_maintenance_cost |-> maintenance,
                    total_10year_cost |-> upfront + maintenance]]]

ItemOutcomes ==
    {PricedProjection(100000, 0), PricedProjection(250050, 984517),
     [exception |-> "Exception"]}

InitReport ==
    /\ NoRun
    /\ NoProjection
    /\ NoHttp
    /\ NoMarket
    /\ NoScrape
    /\ NoFill
    /\ report_price \in ReportPrices
    /\ report_items \in SeqsUpTo([item : ReportItemNames], MaxReportItems)
    /\ report_pc = "request"
    /\ report_valuation = NoValue
    /\ report_repairs = NoValue
    /\ report_combined = NoValue
    /\ report_status = 0

OtherThanReport == <<runVars, projVars, httpVars, marketVars, scrapeVars, fillVars>>

\* property_valuation(...): a current_price of 0 divides by zero in the ROI
ReportValuation ==
    /\ report_pc = "request"
    /\ IF report_price = 0
       THEN /\ report_status' = 500
            /\ report_pc' = "responded"
            /\ UNCHANGED report_valuation
       ELSE /\ \E rate \in RatesPermille :
                  report_valuation' = [cents |-> final_property_value(report_price, rate)]
            /\ report_pc' = "valued"
            /\ UNCHANGED report_status
    /\ UNCHANGED <<report_price, report_items, report_repairs, report_combined,
                   OtherThanReport>>

\* `if request.damage_items: repair_summary = await calculate_price(...)`
ReportRepairs ==
    /\ report_pc = "valued"
    /\ IF report_items = <<>>
       THEN /\ report_pc' = "priced"
            /\ UNCHANGED <<report_repairs, report_status>>
       ELSE \/ \E res \in [1..Len(report_items) -> ItemOutcomes] :
                  /\ report_repairs' =
                        BuildResponse(report_items, res,
                                      [i \in 1..Len(report_items) |-> i])
                  /\ report_pc' = "priced"
                  /\ UNCHANGED report_status
            \/ /\ report_status' = 500
               /\ report_pc' = "responded"
               /\ UNCHANGED report_repairs
    /\ UNCHANGED <<report_price, report_items, report_valuation, report_combined,
                   OtherThanReport>>

\* the combined dictionary, with the insights when there are analyses
ReportResponds ==
    /\ report_pc = "priced"
    /\ report_combined' = Combined(report_price, report_valuation.cents, report_repairs)
    /\ report_status' = 200
    /\ report_pc' = "responded"
    /\ UNCHANGED <<report_price, report_items, report_valuation, report_repairs,
                   OtherThanReport>>

NextReport == ReportValuation \/ ReportRepairs \/ ReportResponds

SpecReport == InitReport /\ [][NextReport]_vars

(***************************************************************************)
(* Properties of calculate_10year_projection (under SpecProjection).       *)
(***************************************************************************)
Projected == projection # NoValue

\* C6: in every projection the upfront cost is attributed to year 0 only:
\* year_0 carries the schedule's upfront cost, no maintenance and is_upfront,
\* and yearly_costs has exactly one entry per year 1..10, in ascending order,
\* each with upfront_cost 0 and is_upfront false.
C6_UpfrontInYear0Only ==
    Projected =>
        /\ projection.year_0.year = 0
        /\ projection.year_0.upfront_cost = cost_data.upfront_repair.cost_EUR * 100
        /\ projection.year_0.maintenance_cost = 0
        /\ projection.year_0.is_upfront = TRUE
        /\ DOMAIN projection.yearly_costs = 1..10
        /\ \A i \in 1..10 :
              /\ projection.yearly_costs[i].year = i
              /\ projection.yearly_costs[i].upfront_cost = 0
              /\ projection.yearly_costs[i].is_upfront = FALSE

C6_Witness ==
    /\ Projected
    /\ cost_data.upfront_repair.cost_EUR > 0
    /\ \E i \in 1..Len(cost_data.maintenance_schedule) :
          /\ cost_data.maintenance_schedule[i].year = 1
          /\ cost_data.maintenance_schedule[i].cost_EUR > 0

\* C7: the reported total_10year_cost is the sum of the reported upfront_cost
\* and the reported total_maintenance_cost (all in cents).
C7_TotalIsUpfrontPlusMaintenance ==
    Projected =>
        projection.total_10year_cost =
            projection.upfront_cost + projection.total_maintenance_cost

\* cost_EUR x 1.15 x 1.045^(y-1), by recurrence on the year: a year 1 event
\* costs cost_EUR x 1.15, and each later year costs 1.045 times the year before
RECURSIVE ExpectedEventCost(_, _)
ExpectedEventCost(cost_EUR, y) ==
    IF y = 1 THEN NumShift(NumTimes(NumOfInt(cost_EUR), 1150))
    ELSE NumShift(NumTimes(ExpectedEventCost(cost_EUR, y - 1), 1045))

\* the sum of the expected costs of the events i..Len of the schedule whose year is y
RECURSIVE ExpectedYearCost(_, _, _)
ExpectedYearCost(schedule, y, i) ==
    IF i > Len(schedule) THEN NumZero
    ELSE NumPlus(IF schedule[i].year = y
                 THEN ExpectedEventCost(schedule[i].cost_EUR, y)
                 ELSE NumZero,
                 ExpectedYearCost(schedule, y, i + 1))

RECURSIVE ExpectedTotal(_, _, _)
ExpectedTotal(schedule, upfront, y) ==
    IF y = 0 THEN NumOfInt(upfront)
    ELSE NumPlus(ExpectedTotal(schedule, upfront, y - 1),
                 ExpectedYearCost(schedule, y, 1))

\* C8: the maintenance cost of each year y in 1..10 is the sum, over the
\* events whose year is y, of cost_EUR x 1.15 x 1.045^(y-1); events outside
\* 1..10 contribute to no year and to no total; the upfront cost gets
\* neither inflation nor contingency.
C8_MaintenanceFormula ==
    Projected =>
        LET schedule == cost_data.maintenance_schedule
            upfront == cost_data.upfront_repair.cost_EUR
        IN  /\ \A y \in 1..10 :
                  projection.yearly_costs[y].maintenance_cost =
                      Round2(ExpectedYearCost(schedule, y, 1))
            /\ projection.total_maintenance_cost =
                  SumSeq([y \in 1..10 |-> Round2(ExpectedYearCost(schedule, y, 1))])
            /\ projection.total_10year_cost = Round2(ExpectedTotal(schedule, upfront, 10))
            /\ projection.upfront_cost = upfront * 100
            /\ projection.year_0.cumulative_cost = upfront * 100

C8_Witness ==
    /\ Projected
    /\ cost_data.upfront_repair.cost_EUR > 0
    /\ Len(cost_data.maintenance_schedule) = 2
    /\ cost_data.maintenance_schedule[1].year = 9
    /\ cost_data.maintenance_schedule[1].cost_EUR > 0
    /\ cost_data.maintenance_schedule[2].year = 11
    /\ cost_data.maintenance_schedule[2].cost_EUR > 0
    /\ projection.yearly_costs[9].maintenance_cost > 0

(***************************************************************************)
(* Properties of the concurrent fan-out (under Spec).                      *)
(***************************************************************************)
NumInProgress == Cardinality({i \in Tasks : InProgress(i)})

\* C1: with max_concurrent = k >= 1, at every moment at most k analyze_damage
\* calls are in progress (between acquiring and releasing the semaphore), in
\* analyze_damages_for_endpoint and in run_analyses_async alike.
C1_AtMostKInProgress ==
    max_concurrent >= 1 => NumInProgress <= max_concurrent

C1_Witness ==
    /\ max_concurrent >= 1
    /\ NumInProgress = max_concurrent
    /\ \E i \in Tasks : task[i].pc = "pending"

\* C2: with use_mock, no call_ai_model invocation goes to the remote model.
C2_MockNeverCallsGemini ==
    use_mock =>
        \A i \in Tasks : \A c \in 1..Len(task[i].calls) :
            task[i].calls[c].served_by # "gemini"

Returned == entry = Endpoint /\ main_pc = "returned"

FailedIndexes == {i \in Tasks : IsException(results[i])}
OkIndexes == {i \in Tasks : ~IsException(results[i])}

\* the position of index i among the indexes of S, in ascending order
RankIn(S, i) == Cardinality({j \in S : j <= i})

\* C3: when analyze_damage raises for some items the endpoint function does
\* not raise; its response has status "success", every other item is in
\* analyses, every failing item is in failed_items under the name of the item
\* at its request index with the exception text, and failed_items is None
\* exactly when no item failed.
C3_FailuresAreReported ==
    /\ (entry = Endpoint /\ max_concurrent >= 0) => main_pc # "raised"
    /\ Returned =>
          /\ response.status = "success"
          /\ (response.failed_items = NoValue) <=> (FailedIndexes = {})
          /\ FailedIndexes # {} =>
                /\ Len(response.failed_items.list) = Cardinality(FailedIndexes)
                /\ \A i \in FailedIndexes :
                      response.failed_items.list[RankIn(FailedIndexes, i)] =
                          [item |-> damage_items[i].item,
                           error |-> results[i].exception]
          /\ Len(response.analyses) = Cardinality(OkIndexes)
          /\ \A i \in OkIndexes :
                \E k \in 1..Len(response.analyses) :
                    response.analyses[k] = results[i].value

C3_Witness ==
    /\ Returned
    /\ Len(damage_items) = 2
    /\ ~IsException(results[1])
    /\ IsException(results[2])
    /\ results[1].value.projection_10year.total_10year_cost > 0
    /\ response.failed_items # NoValue

\* C4: every requested item is accounted for exactly once
\* (analyzed + failed = requested), and the entries of analyses are in the
\* order of their items in the request, whatever the order of completion.
C4_AccountedInRequestOrder ==
    Returned =>
        /\ response.summary.total_items_analyzed
              + response.summary.failed_items_count
                  = response.summary.total_items_requested
        /\ response.summary.total_items_requested = Len(damage_items)
        /\ response.summary.total_items_analyzed = Len(response.analyses)
        /\ response.summary.failed_items_count = Cardinality(FailedIndexes)
        /\ \A i \in OkIndexes :
              response.analyses[RankIn(OkIndexes, i)] = results[i].value

C4_Witness ==
    /\ Returned
    /\ finished = <<2, 1>>
    /\ OkIndexes = {1, 2}
    /\ damage_items[1] # damage_items[2]
    /\ response.analyses[1].damage_item = damage_items[1].item

\* the sum of a field of the projections of the entries k..Len of analyses
RECURSIVE SumOfAnalyses(_, _, _)
SumOfAnalyses(analyses, field, k) ==
    IF k > Len(analyses) THEN 0
    ELSE analyses[k].projection_10year[field] + SumOfAnalyses(analyses, field, k + 1)

\* C5: the summary's grand total, total upfront and total maintenance are the
\* sums of total_10year_cost, upfront_cost and total_maintenance_cost over the
\* entries of analyses; failed items contribute nothing.
C5_TotalsAreSums ==
    Returned =>
        LET cb == response.summary.cost_breakdown
        IN  /\ cb.grand_total_10year_cost_EUR =
                  SumOfAnalyses(response.analyses, "total_10year_cost", 1)
            /\ cb.total_upfront_cost_EUR =
                  SumOfAnalyses(response.analyses, "upfront_cost", 1)
            /\ cb.total_maintenance_cost_EUR =
                  SumOfAnalyses(response.analyses, "total_maintenance_cost", 1)
            /\ response.analyses = <<>> =>
                  /\ cb.grand_total_10year_cost_EUR = 0
                  /\ cb.total_upfront_cost_EUR = 0
                  /\ cb.total_maintenance_cost_EUR = 0

C5_Witness ==
    /\ Returned
    /\ Len(response.analyses) = 1
    /\ FailedIndexes # {}
    /\ response.summary.cost_breakdown.grand_total_10year_cost_EUR > 0
    /\ response.summary.cost_breakdown.total_maintenance_cost_EUR > 0

\* The rows of the database whose name contains the item, and whether the
\* first of them has every critical field present and parseable
MatchingRows(item) ==
    {j \in 1..Len(Database) : Contains(Lower(Database[j].Item), Lower(item))}

RowIsComplete(item) ==
    /\ MatchingRows(item) # {}
    /\ LET first == CHOOSE j \in MatchingRows(item) :
                        \A k \in MatchingRows(item) : j <= k
           row == Database[first]
       IN  /\ \A cell \in {row.Price, row.Unit, row.Lifespan, row.PriceType} :
                  cell \notin {Dash, NaN}
           /\ IsNumber(row.Lifespan)
           /\ IsNumber(row.Price)

\* the requested items whose first matching row is complete
CompleteItems == {d.item : d \in {x \in DamageItemChoices : RowIsComplete(x.item)}}

ExpectedSteps(item) ==
    IF item \in CompleteItems
    THEN <<"csv_lookup", "schedule_call", "projection">>
    ELSE <<"csv_lookup", "completion_call", "schedule_call", "projection">>

ExpectedCalls(item) == IF item \in CompleteItems THEN 1 ELSE 2

IsPrefix(s, t) == Len(s) <= Len(t) /\ s = SubSeq(t, 1, Len(s))

CompletionCallMade(i) ==
    \E c \in 1..Len(task[i].calls) : task[i].calls[c].purpose = "completion"

C9_SeverityIn1To5 ==
    \A k \in 1..Len(reached) :
        /\ reached[k].tenths % 10 = 0
        /\ reached[k].tenths \in {10, 20, 30, 40, 50}

(***************************************************************************)
(* Properties of fetch_market_appreciation_rate (under SpecMarket).        *)
(***************************************************************************)
MarketListings == Get(market_reply.body, "results", <<>>)

\* the indexes of the comparable listings: those priced within 30% of the
\* current price, or all of them when none is
ComparableIndexes ==
    LET near == {i \in 1..Len(MarketListings) :
                    /\ "buyingPrice" \in DOMAIN MarketListings[i]
                    /\ MarketListings[i]["buyingPrice"].num * 10 >= 7 * market_price
                    /\ MarketListings[i]["buyingPrice"].num * 10 <= 13 * market_price
                    /\ MarketListings[i]["buyingPrice"].num # 0}
    IN  IF near = {} THEN 1..Len(MarketListings) ELSE near

\* those of them that carry a gross return (a return of 0 counts as none)
ReturnIndexes ==
    {i \in ComparableIndexes :
        /\ "grossReturn" \in DOMAIN MarketListings[i]
        /\ MarketListings[i]["grossReturn"].num # 0}

RECURSIVE TotalReturn(_)
TotalReturn(indexes) ==
    IF indexes = {} THEN 0
    ELSE LET i == CHOOSE j \in indexes : TRUE
         IN  MarketListings[i]["grossReturn"].num + TotalReturn(indexes \ {i})

\* every price and gross return of the reply is a number
ReplyIsNumeric ==
    \A i \in 1..Len(MarketListings) : \A k \in DOMAIN MarketListings[i] :
        IsNum(MarketListings[i][k])

\* C11: fetch_market_appreciation_rate returns one of 0.01, 0.015, 0.02,
\* 0.025; for a reply with numeric listings it is chosen from the average
\* gross return of the comparable listings (3.5 when none carries one) by the
\* thresholds >5.0 -> 0.025, >4.0 -> 0.02, >3.0 -> 0.015, otherwise 0.01; the
\* table is non-decreasing in the average; and the rate is 0.015 whenever
\* the market call fails or returns no results.
C11_RateFromThresholds ==
    /\ market_pc = "returned" =>
          /\ market_rate \in {100, 150, 200, 250}
          /\ market_reply.fails => market_rate = 150
          /\ (~market_reply.fails /\ MarketListings = <<>>) => market_rate = 150
          /\ (~market_reply.fails /\ MarketListings # <<>> /\ ReplyIsNumeric) =>
                LET total == IF ReturnIndexes = {} THEN 350
                             ELSE TotalReturn(ReturnIndexes)
                    count == IF ReturnIndexes = {} THEN 1
                             ELSE Cardinality(ReturnIndexes)
                IN  /\ total > 500 * count => market_rate = 250
                    /\ (total > 400 * count /\ total <= 500 * count) => market_rate = 200
                    /\ (total > 300 * count /\ total <= 400 * count) => market_rate = 150
                    /\ total <= 300 * count => market_rate = 100
    /\ \A a, b \in {250, 300, 350, 400, 450, 500, 550} :
          a <= b => RateForAverage(a, 1) <= RateForAverage(b, 1)

C11_Witness ==
    /\ market_pc = "returned"
    /\ ~market_reply.fails
    /\ Len(MarketListings) = 2
    /\ ReplyIsNumeric
    /\ ReturnIndexes = {1, 2}
    /\ ComparableIndexes = {1, 2}
    /\ \A i \in {1, 2} : "buyingPrice" \in DOMAIN MarketListings[i]
    /\ MarketListings[1]["buyingPrice"].num = 400
    /\ MarketListings[2]["buyingPrice"].num = 400
    /\ TotalReturn(ReturnIndexes) = 1000
    /\ MarketListings[1]["grossReturn"].num = 400
    /\ market_rate = 200

(***************************************************************************)
(* Properties of the scraper (under SpecScrape).                           *)
(***************************************************************************)
ScrapeReturned == scrape_pc \in {"returned", "responded"} /\ scrape_result # NoValue

\* the result describes one listing page that was fetched
ListingResult ==
    /\ ScrapeReturned
    /\ ~scrape_result.is_search_page
    /\ "error" \notin DOMAIN scrape_result

\* the copies of the page that were fetched and parsed
ParsedCopies ==
    {k \in 1..Len(scrape_seen) : scrape_seen[k] # NoPage /\ scrape_seen[k].defect = ""}

\* the result reports the JSON-LD price and address of the copy, where the
\* copy's JSON-LD yields them
JsonLdWins(copy) ==
    /\ copy.jsonld.price # 0 => scrape_result.price = copy.jsonld.price
    /\ copy.jsonld.address # "" => scrape_result.address = copy.jsonld.address

\* where JSON-LD yields nothing, the result reports what the regular
\* expressions yield
RegexSecond(copy) ==
    /\ copy.jsonld.price = 0 => scrape_result.price = copy.regex.price
    /\ copy.jsonld.address = "" => scrape_result.address = copy.regex.address

\* the result of an ImmoScout24 listing reports one parsed copy, JSON-LD first
ImmoScoutJsonLdFirst ==
    \/ \E k \in ParsedCopies :
          JsonLdWins(scrape_seen[k]) /\ RegexSecond(scrape_seen[k])
    \/ /\ scrape_result.price = 0
       /\ scrape_result.address = ""
       /\ scrape_result.photos = <<>>

\* C12 as stated: for a listing page of either site, whenever the page's
\* JSON-LD yields a price or an address the result reports that value, in
\* preference to regular expressions, CSS selectors and LLM extraction.
C12_JsonLdIsPrimary ==
    ListingResult =>
        IF scrape_result.source = "immowelt.de"
        THEN JsonLdWins(scrape_seen[Len(scrape_seen)])
        ELSE ImmoScoutJsonLdFirst

\* C12, amended: for an ImmoScout24 listing the result reports the JSON-LD
\* price and address of the parsed copy in preference to the regular
\* expressions; for an Immowelt listing the LLM extraction comes first, and
\* the JSON-LD value is reported for a field the LLM did not yield, in
\* preference to CSS selectors and regular expressions.
C12_JsonLdAfterLlmOnImmowelt ==
    ListingResult =>
        IF scrape_result.source = "immowelt.de"
        THEN LET copy == scrape_seen[Len(scrape_seen)]
             IN  /\ copy.gemini.price # 0 => scrape_result.price = copy.gemini.price
                 /\ copy.gemini.address # "" =>
                       scrape_result.address = copy.gemini.address
                 /\ (copy.gemini.price = 0 /\ copy.jsonld.price # 0) =>
                       scrape_result.price = copy.jsonld.price
                 /\ (copy.gemini.address = "" /\ copy.jsonld.address # "") =>
                       scrape_result.address = copy.jsonld.address
        ELSE ImmoScoutJsonLdFirst

C12_Witness ==
    /\ ListingResult
    /\ scrape_pc = "responded"
    /\ scrape_result.source = "immowelt.de"
    /\ scrape_seen[Len(scrape_seen)].gemini = Yield(480, "")
    /\ scrape_seen[Len(scrape_seen)].jsonld = Yield(450, "Ld-Str. 1")
    /\ scrape_seen[Len(scrape_seen)].selectors.price = 490
    /\ scrape_result.price = 480
    /\ scrape_result.address = "Ld-Str. 1"

\* C13: the photos of a result are at most max_images (none for a max_images
\* of 0 or less), whatever the URL and whichever downloads fail.
C13_AtMostMaxImages ==
    ScrapeReturned =>
        Len(scrape_result.photos) <=
            (IF scrape_max_images > 0 THEN scrape_max_images ELSE 0)

\* the scrape obtained nothing / extracted the price or the address
ObtainedNothing ==
    /\ scrape_result.photos = <<>>
    /\ Get(scrape_result, "listings", <<>>) = <<>>
    /\ scrape_result.price = 0
    /\ scrape_result.address = ""

\* C14: for an ImmoScout24 URL the returned result carries bot_detected = true
\* and a warning whenever the scrape obtained nothing, and carries no
\* bot_detected when the scrape extracted the price or the address.
C14_BotDetectedOnlyWhenBlocked ==
    (ScrapeReturned /\ scrape_pc # "fetched"
        /\ scrape_result.source \in {"immo24", "immo24_search"}) =>
        /\ ObtainedNothing =>
              /\ "bot_detected" \in DOMAIN scrape_result
              /\ scrape_result.bot_detected
              /\ "warning" \in DOMAIN scrape_result
        /\ (scrape_result.price # 0 \/ scrape_result.address # "") =>
              "bot_detected" \notin DOMAIN scrape_result

UrlIsRejected == scrape_url = <<>> \/ _detect_site(scrape_url) = ""

\* C15: the endpoint answers 400 exactly when the URL is empty or of no
\* supported site, and then no page was fetched; every other exception of the
\* scraper is answered with 500; every request is answered.
C15_StatusCodes ==
    scrape_pc = "responded" =>
        /\ scrape_status \in {200, 400, 500}
        /\ scrape_status = 400 <=> UrlIsRejected
        /\ scrape_status = 400 => page_fetches = 0
        /\ (scrape_raised # "" /\ ~UrlIsRejected) => scrape_status = 500
        /\ scrape_status = 200 <=> scrape_raised = ""

(***************************************************************************)
(* Properties of the CSV filler (under SpecFill).                          *)
(***************************************************************************)
\* the defaults dictionary of a row: its missing fields, with the defaults
IsDefaultsOf(data, row) ==
    /\ DOMAIN data = {field \in {"lifespan", "price_type", "price", "unit"} :
                         row[field] = "-" \/ row[field] = ""
                             \/ (field = "lifespan" /\ row[field] = "kU")}
    /\ "lifespan" \in DOMAIN data => data["lifespan"] = JsonNum(20)
    /\ "price_type" \in DOMAIN data => data["price_type"] = JsonStr("Replacement")
    /\ "price" \in DOMAIN data => data["price"] = JsonNum(500)
    /\ "unit" \in DOMAIN data => data["unit"] = JsonStr("per piece")

\* C16: generate_missing_data_batch calls the model at most MAX_RETRIES times
\* per batch; it returns at the first attempt whose reply parses; a delay
\* follows a failed attempt exactly when another attempt follows; when all
\* attempts failed it returns, in batch order, one dictionary per row with the
\* defaults of exactly that row's missing fields.
C16_RetriesThenDefaults ==
    /\ Len(SelectSeq(gen_log, LAMBDA event : event # "sleep")) <= 3
    /\ \A i \in DOMAIN gen_log :
          /\ gen_log[i] = "sleep" <=> i % 2 = 0
          /\ gen_log[i] = "parsed" => (i = Len(gen_log) /\ fill_pc = "apply")
    /\ fill_pc = "sleep" => gen_log # <<>> /\ Len(gen_log) < 5
    /\ fill_pc = "apply" =>
          /\ gen_log # <<>>
          /\ gen_log[Len(gen_log)] # "sleep"
          /\ gen_log[Len(gen_log)] = "failed" =>
                /\ gen_log = <<"failed", "sleep", "failed", "sleep", "failed">>
                /\ "list" \in DOMAIN gen_result
                /\ Len(gen_result.list) = Len(CurrentBatch)
                /\ \A k \in 1..Len(CurrentBatch) :
                      IsDefaultsOf(gen_result.list[k], fill_rows[CurrentBatch[k]])

C16_Witness ==
    /\ fill_pc = "apply"
    /\ gen_log = <<"failed", "sleep", "failed", "sleep", "failed">>
    /\ Len(CurrentBatch) = 2
    /\ DOMAIN gen_result.list[1] = {"lifespan", "unit"}
    /\ DOMAIN gen_result.list[2] = {"lifespan", "price"}

\* C17: when fill_missing_data has run to completion, in either mode, no row
\* has missing data.
C17_NoRowHasMissingData ==
    fill_pc = "done" =>
        \A i \in 1..Len(fill_rows) :
            /\ fill_rows[i].lifespan \notin {"-", "", "kU"}
            /\ fill_rows[i].price_type \notin {"-", ""}
            /\ fill_rows[i].price \notin {"-", ""}
            /\ fill_rows[i].unit \notin {"-", ""}

(***************************************************************************)
(* Properties of /valuation-report (under SpecReport).                     *)
(***************************************************************************)
ReportAnswered == report_pc = "responded" /\ report_status = 200

RECURSIVE SumOfTotals(_)
SumOfTotals(analyses) ==
    IF analyses = <<>> THEN 0
    ELSE Head(analyses).projection_10year.total_10year_cost
            + SumOfTotals(Tail(analyses))

\* C18: in the answer of /valuation-report, repairs is null when the request
\* has no damage items; insights is present exactly when repairs holds at
\* least one successful analysis; then net_projected_value is the final
\* property value minus the grand total of the repairs, and
\* repair_to_value_ratio is grand total / current_price x 100 (to the two
\* decimals the answer reports).
C18_ReportComposesValuationAndRepairs ==
    ReportAnswered =>
        LET repairs == report_combined.repairs
        IN  /\ report_items = <<>> => repairs = NoValue
            /\ "insights" \in DOMAIN report_combined <=>
                  (repairs # NoValue /\ Len(repairs.analyses) >= 1)
            /\ "insights" \in DOMAIN report_combined =>
                  LET total ==
                          repairs.summary.cost_breakdown.grand_total_10year_cost_EUR
                      insights == report_combined.insights
                      off == insights.repair_to_value_ratio * report_price - 100 * total
                  IN  /\ total = SumOfTotals(repairs.analyses)
                      /\ insights.net_projected_value = report_combined.valuation - total
                      /\ 2 * off <= report_price
                      /\ -2 * off <= report_price

C18_Witness ==
    /\ ReportAnswered
    /\ report_price = 200000
    /\ Len(report_items) = 2
    /\ report_combined.valuation = 23210817
    /\ Len(report_combined.repairs.analyses) = 1
    /\ report_combined.repairs.failed_items # NoValue
    /\ "insights" \in DOMAIN report_combined
    /\ report_combined.insights.net_projected_value = 21976250
    /\ report_combined.insights.repair_to_value_ratio = 617

(***************************************************************************)
(* Termination of the fan-out (under SpecFair).                            *)
(***************************************************************************)
\* C19: every call of analyze_damages_for_endpoint eventually ends, with the
\* response (or, for a negative max_concurrent, with the ValueError that
\* calculate_price answers), whatever the list of damage items and whatever
\* integer max_concurrent is, given that every model call returns: no task
\* waits on the semaphore forever.
C19_EndpointEventuallyReturns ==
    (entry = Endpoint /\ main_pc = "call") ~> (main_pc \in {"returned", "raised"})

(***************************************************************************)
(* The fallback schedule by severity (under SpecSeverity).                 *)
(***************************************************************************)
\* the analysis of task i was built from the fallback schedule
FellBack(i) ==
    /\ results[i] # NoValue
    /\ ~IsException(results[i])
    /\ "severity_multiplier_tenths" \in
           DOMAIN results[i].value.cost_breakdown.upfront_repair

FallbackUpfront(i) == results[i].value.cost_breakdown.upfront_repair.cost_EUR
BasePrice(i) == results[i].value.component_data.base_price

\* C20: when the schedule reply is not valid JSON, the upfront cost is the
\* base price times 1.3, 1.7, 2.3, 3.0 for severity 2, 3, 4, 5 and 0 for
\* severity 1, with an empty maintenance schedule; for one base price the
\* cost does not decrease as the severity grows; the item is reported in
\* analyses and not in failed_items (a task fails only when a model call
\* raises or the completion reply lacks price_EUR).
C20_FallbackBySeverity ==
    /\ \A i \in Tasks :
          FellBack(i) =>
              LET severity == damage_items[i].severity
              IN  /\ severity = 1 => FallbackUpfront(i) = 0
                  /\ severity = 2 => 10 * FallbackUpfront(i) = 13 * BasePrice(i)
                  /\ severity = 3 => 10 * FallbackUpfront(i) = 17 * BasePrice(i)
                  /\ severity = 4 => 10 * FallbackUpfront(i) = 23 * BasePrice(i)
                  /\ severity = 5 => 10 * FallbackUpfront(i) = 30 * BasePrice(i)
                  /\ results[i].value.cost_breakdown.maintenance_schedule = <<>>
                  /\ task[i].pc = "done"
                  /\ \A j \in Tasks :
                        (FellBack(j) /\ BasePrice(j) = BasePrice(i)
                            /\ severity <= damage_items[j].severity) =>
                            FallbackUpfront(i) <= FallbackUpfront(j)
                  /\ (main_pc = "returned" /\ entry = Endpoint) =>
                        \E k \in 1..Len(response.analyses) :
                            response.analyses[k] = results[i].value
    /\ \A i \in Tasks :
          (results[i] # NoValue /\ IsException(results[i])) =>
              results[i].exception \in {"model call failed", "KeyError: 'price_EUR'"}
    /\ (main_pc = "returned" /\ entry = Endpoint) =>
          /\ Len(response.analyses) =
                Cardinality({i \in Tasks : ~IsException(results[i])})
          /\ response.summary.failed_items_count =
                Cardinality({i \in Tasks : IsException(results[i])})

C20_Witness ==
    /\ main_pc = "returned"
    /\ entry = Endpoint
    /\ Len(damage_items) = 2
    /\ damage_items[1].severity = 4
    /\ damage_items[2].severity = 1
    /\ FellBack(1)
    /\ FellBack(2)
    /\ BasePrice(1) = 5000
    /\ FallbackUpfront(1) = 11500
    /\ FallbackUpfront(2) = 0
    /\ Len(response.analyses) = 2
    /\ response.failed_items = NoValue

(***************************************************************************)
(* The fallback component data (under Spec).                               *)
(***************************************************************************)
\* the completion reply of task i was not JSON: analyze_damage went on with
\* the default component data
CompletionFellBack(i) ==
    /\ task[i].complete_data # NoValue
    /\ "source" \in DOMAIN task[i].complete_data
    /\ task[i].complete_data.source = "fallback"

HasDefaultComponentData(i) ==
    /\ task[i].complete_data.lifespan_years = 20
    /\ task[i].complete_data.price_type = <<"Repair">>
    /\ task[i].complete_data.price_EUR = 1000
    /\ task[i].complete_data.unit = <<"per piece">>

ScheduleStepMade(i) ==
    /\ Len(task[i].calls) = 2
    /\ task[i].calls[2].purpose = "schedule"
    /\ SubSeq(task[i].steps, 1, 3) = <<"csv_lookup", "completion_call", "schedule_call">>

ReportedInAnalyses(i) ==
    /\ task[i].pc = "done"
    /\ task[i].steps[Len(task[i].steps)] = "projection"
    /\ ~IsException(results[i])
    /\ results[i].value.component_data.data_source = "fallback"
    /\ results[i].value.component_data.base_price = 1000
    /\ results[i].value.component_data.lifespan_years = 20
    /\ (main_pc = "returned" /\ entry = Endpoint) =>
          \E k \in 1..Len(response.analyses) : response.analyses[k] = results[i].value

====
